---- MODULE Spec2Model ----
(***************************************************************************)
(* wscoro: promise data slot, continuation link, exception policies and    *)
(* the suspend/resume protocol of the task flavours.                        *)
(*                                                                         *)
(* Modelled revision: include/wscoro/{value,suspend,exception,wscoro}.h    *)
(* and the handle types of unnamed/part_000 (CoroutineBase, BasicTask,     *)
(* BasicGenerator).  Assertions are modelled as in a debug build: a failed *)
(* assert aborts the program (fault /= NoFault and nothing runs after it). *)
(***************************************************************************)
EXTENDS Integers, Sequences, FiniteSets, TLC

(***************************************************************************)
(* Bounds                                                                  *)
(***************************************************************************)
MaxVal == 2
MaxWrites == 3
MaxCalls == 4
MaxYields == 2
MaxSusp == 3

Values == 1..MaxVal

(***************************************************************************)
(* Distinguished values                                                    *)
(***************************************************************************)
Null == 0            \* a null coroutine_handle / empty exception_ptr
NoopCo == 9          \* std::noop_coroutine()
NoData == 0          \* storage that holds no constructed object
MovedFrom == -1      \* storage that holds a moved-from object
Void == -2           \* result of a void call
NullOpt == -3        \* std::nullopt
NoFault == "none"

Thrown == -4         \* a call that exited with an exception
Torn == -5           \* an object whose construction has begun, not ended

MaxRounds == 7       \* the most rounds get_seq is called with
FmtBase == 16        \* the base of the digits a formatted text is kept in
Ids == 1..2          \* coroutine frames: 1 is the outer one, 2 the inner one

VARIABLES
  pd,        \* unit level: one PromiseData<T>
  link,      \* unit level: one detail::Continuation (its _continuation)
  last,      \* unit level: the last call made and what it returned
  prev,      \* unit level: the call before the last one
  ufault,    \* unit level: the assertion that aborted the program, if any
  co,        \* the coroutine frames: promise, suspension point, body
  log,       \* what the bodies and the protocol functions did, in order
  fault,     \* the failed assertion or undefined behaviour that ended the run
  hres,      \* per handle: what the host's await_resume calls returned
  hwait,     \* handles the host awaits with a continuation still pending
  hd,        \* the handle objects (CoroutineBase<P>) the host holds
  freed,     \* per frame: how often the frame has been destroyed
  move_result, \* Traits::move_result of the task types of the run
  th         \* the execution contexts that share the unit-level PromiseData

uvars == <<pd, link, last, prev, ufault>>
rvars == <<co, log, fault, hres, hwait>>
hvars == <<hd, freed, move_result, th>>
vars == <<pd, link, last, prev, ufault, co, log, fault, hres, hwait, hd, freed,
          move_result, th>>

(***************************************************************************)
(* detail::PromiseData<T>  (value.h)                                       *)
(* is_empty is the atomic_flag; data is the union's storage; ctor and dtor *)
(* count the T objects constructed in / destroyed from the storage.        *)
(***************************************************************************)
PromiseData == [is_empty |-> TRUE, data |-> NoData, ctor |-> 0, dtor |-> 0]

free_data(p) ==
  IF p.is_empty = FALSE
    THEN [p EXCEPT !.is_empty = TRUE, !.data = NoData, !.dtor = @ + 1]
    ELSE [p EXCEPT !.is_empty = TRUE]

has_value_never(p) == FALSE

has_value(p) == ~p.is_empty

init_data_nofree(p, v) ==
  [p EXCEPT !.data = v, !.ctor = @ + 1, !.is_empty = FALSE]

init_data(p, v) ==
  [free_data(p) EXCEPT !.data = v, !.ctor = @ + 1, !.is_empty = FALSE]

\* data() & : [ok, val]; ok = FALSE is the failed assert(has_value())
data_ref(p) ==
  IF has_value(p) THEN [ok |-> TRUE, val |-> p.data]
                  ELSE [ok |-> FALSE, val |-> p.data]

\* data() && : [ok, val, p]; ok = FALSE is the failed assert(!is_empty)
data_take_keep(p) ==
  [ok |-> ~p.is_empty, val |-> p.data, p |-> p]

data_take(p) ==
  [ok  |-> ~p.is_empty,
   val |-> p.data,
   p   |-> [p EXCEPT !.is_empty = TRUE,
                     !.data = IF p.data = NoData THEN NoData ELSE MovedFrom]]

\* PromiseData<void, 0>::has_value
has_value_void(p) == FALSE

\* data() of a void slot that checks and empties it as data() && does
data_void_checked(p) == data_take(p)

\* PromiseData<void, 0>::data: [ok, val, p]; nothing is checked or changed
data_void(p) == [ok |-> TRUE, val |-> Void, p |-> p]

(***************************************************************************)
(* detail::Continuation and detail::SuspendWithContinuation (suspend.h)    *)
(***************************************************************************)
\* set_continuation: [ok, ret, c]; ok = FALSE is the failed assert
set_continuation_drop(c, h) ==
  [ok |-> (c = Null), ret |-> TRUE, c |-> Null]

set_continuation(c, h) ==
  [ok |-> (c = Null), ret |-> TRUE, c |-> h]

\* NoContinuation::set_continuation
no_set_continuation(c, h) ==
  [ok |-> TRUE, ret |-> FALSE, c |-> c]

\* suspend_with_continuation: [sus, c]; sus is the awaiter's _continuation
suspend_with_continuation_keep(c) ==
  [sus |-> c, c |-> c]

suspend_with_continuation(c) ==
  [sus |-> c, c |-> Null]

\* SuspendWithContinuation::await_ready of an older header: !_continuation
sus_await_ready_old(sus) == sus = Null

\* SuspendWithContinuation::await_ready
sus_await_ready(sus) == FALSE

\* SuspendWithContinuation::await_suspend
sus_await_suspend_noop(sus) == NoopCo

sus_await_suspend(sus) ==
  IF sus /= Null THEN sus ELSE NoopCo

(***************************************************************************)
(* exception::AsyncThrow / exception::SyncThrow (exception.h)              *)
(* exc is AsyncThrow::_exception (TRUE: an exception_ptr is stored).       *)
(***************************************************************************)
\* AsyncThrow::unhandled_exception
unhandled_exception(exc) == TRUE

\* AsyncThrow::rethrow_exception: [throws, exc]; it is const, the stored
\* exception_ptr stays what it was.
rethrow_exception(exc) == [throws |-> exc, exc |-> exc]

(***************************************************************************)
(* The flavours (wscoro.h): which policy classes each promise is made of.  *)
(***************************************************************************)
Flavors == {"Immediate", "Lazy", "Task", "ImmediateTask", "Generator",
            "AsyncGenerator", "FireAndForget"}

\* value::BasicYield / value::YieldWithContinuation and BasicGenerator
IsGenerator(f) == f \in {"Generator", "AsyncGenerator"}

\* suspend::FinalSuspendWithContinuation (virtual detail::Continuation)
HasContinuation_all(f) == TRUE

HasContinuation(f) == f \in {"Task", "ImmediateTask", "AsyncGenerator"}

\* suspend::BasicInitialSuspend<Suspend>::did_initial_suspend
did_initial_suspend_always(f) == TRUE

did_initial_suspend(f) == f \in {"Lazy", "Task", "Generator", "AsyncGenerator"}

\* suspend::BasicFinalSuspend<false> is used by FireAndForget only
HasFinalSuspend(f) == f /= "FireAndForget"

\* exception::AsyncThrow against exception::SyncThrow
\* the exception_behavior of an older header: handle_exceptions for the
\* tasks, rethrow_exceptions for both generators
IsAsyncThrow_tasks(f) == f \in {"Task", "ImmediateTask"}

IsAsyncThrow_none(f) == FALSE

IsAsyncThrow_all(f) == TRUE

IsAsyncThrow(f) == f \in {"Task", "ImmediateTask", "AsyncGenerator"}

\* BasicTask / BasicGenerator against BasicCoroutine, which has no await_ready,
\* await_suspend, await_resume and no destructor that destroys the frame
IsBasicCoroutine(f) == f = "FireAndForget"

\* await::EnableAwait against await::DisableAwait
EnableAwait(f) == f \in {"Task", "ImmediateTask", "AsyncGenerator",
                         "FireAndForget"}

(***************************************************************************)
(* A coroutine frame.                                                      *)
(*   st   "none" (not created), "suspended", "running", "done" (suspended  *)
(*        at the final suspend point), "destroyed"                         *)
(*   at   the suspension point: "initial", "inner" (co_await               *)
(*        suspend_always), "await" (co_await of another coroutine),        *)
(*        "yield", "final"                                                 *)
(*   pc   the instruction of body that runs next (for "await": the await   *)
(*        whose await_resume runs next)                                    *)
(*   cont detail::Continuation::_continuation, pd the PromiseData,         *)
(*   exc  AsyncThrow::_exception, got what the body's awaits returned,     *)
(*   loc  the local variables of the body                                  *)
(***************************************************************************)
Instr(op, arg) == [op |-> op, arg |-> arg]

NewCo(f, isvoid, body) ==
  [flavor |-> f, void |-> isvoid, body |-> body, st |-> "none", at |-> "none",
   pc |-> 1, cont |-> Null, pd |-> PromiseData, exc |-> FALSE, got |-> <<>>,
   loc |-> [a0 |-> 0, a1 |-> 0]]

\* CoroutineBase::done
done_never(r) == FALSE

done(r) == r.st = "done"

\* BasicTask::await_ready / BasicGenerator::await_ready
await_ready_always(r) == TRUE

\* BasicTask::await_ready in the place of BasicGenerator::await_ready
await_ready_done(r) == done(r)

await_ready(r) ==
  IF IsGenerator(r.flavor) THEN has_value(r.pd) \/ done(r) ELSE done(r)

(***************************************************************************)
(* The interpreter.  One call by the host runs as a sequence of steps over *)
(* s = [co, log, fault, thrown, woken, stack, ctl]:                        *)
(*   thrown  an exception is propagating out of the current call           *)
(*   woken   <<b, h>>: the continuation h of b was handed back for resume  *)
(*   stack   the calls in progress below the running coroutine, innermost  *)
(*           first: [kind |-> "create", c, b] the body of c (or the host,  *)
(*           c = NoopCo) called the coroutine function of b;               *)
(*           [kind |-> "sync", c, b] await_suspend of b, called with the   *)
(*           continuation c, called b's resume()                           *)
(*   ctl     what happens next: [op |-> "resume", c] the handle c is       *)
(*           resumed (symmetric transfer; the noop coroutine returns from  *)
(*           the resume() in progress), [op |-> "body", c] the body of c   *)
(*           runs its next instruction, [op |-> "ret"] the innermost call  *)
(*           returns, [op |-> "halt"] control is back in the host          *)
(* log entries are <<event, coroutine, x, y>>:                             *)
(*   "create" c        the coroutine function of c was called              *)
(*   "resume" c        the host called resume() on c                       *)
(*   "enter" c pc      c was resumed (by anyone) at instruction pc         *)
(*   "exec" c pc       the body of c ran instruction pc                    *)
(*   "await_suspend" b h n   await_suspend of b with continuation h        *)
(*                     returned the handle n                               *)
(*   "wake" b h fin    b handed control to its continuation h at a yield   *)
(*                     (fin = 0) or at its final suspend (fin = 1)         *)
(*   "ready" b h r     h continues after its co_await of b; r is b's       *)
(*                     await_ready at that moment                          *)
(*   "await_resume" b h v    await_resume of b called by h returned v      *)
(*   "unhandled" c     an exception left the body of c                     *)
(*   "host_catch" c    an exception left the host's call on c              *)
(***************************************************************************)
Ev(e, c, x, y) == <<e, c, x, y>>

Note(s, e) == [s EXCEPT !.log = Append(@, e)]

Goto(s, op, c) == [s EXCEPT !.ctl = [op |-> op, c |-> c]]

Abort(s, f) == [Goto(s, "halt", NoopCo) EXCEPT !.fault = f]

Push(s, kind, c, b) ==
  [s EXCEPT !.stack = <<[kind |-> kind, c |-> c, b |-> b]>> \o @]

\* std::suspend_always of a co_yield / final_suspend without continuation,
\* SuspendWithContinuation with one: the handle control goes to next.
Handoff(s, c, fin) ==
  IF HasContinuation(s.co[c].flavor)
    THEN LET r == suspend_with_continuation(s.co[c].cont)
             h == sus_await_suspend(r.sus)
             s1 == Goto([s EXCEPT !.co[c].cont = r.c], "resume", h)
         IN IF sus_await_ready(r.sus)
              THEN IF fin = 1
                     THEN Goto([s EXCEPT !.co[c].cont = r.c,
                                         !.co[c].st = "destroyed",
                                         !.co[c].pd = free_data(@)],
                               "resume", NoopCo)
                     ELSE Goto([s EXCEPT !.co[c].cont = r.c,
                                         !.co[c].st = "running"], "body", c)
            ELSE IF r.sus /= Null
              THEN [Note(s1, Ev("wake", c, r.sus, fin))
                      EXCEPT !.woken = @ \cup {<<c, r.sus>>}]
              ELSE s1
    ELSE Goto(s, "resume", NoopCo)

\* final_suspend: FinalSuspendWithContinuation, BasicFinalSuspend<true>,
\* BasicFinalSuspend<false> (the frame is destroyed when the body ends)
Final_discard(s, c) ==
  Goto([s EXCEPT !.co[c].st = "done", !.co[c].at = "final",
                 !.co[c].cont = Null], "resume", NoopCo)

Final(s, c) ==
  IF HasFinalSuspend(s.co[c].flavor)
    THEN Handoff([s EXCEPT !.co[c].st = "done", !.co[c].at = "final"], c, 1)
    ELSE Goto([s EXCEPT !.co[c].st = "destroyed", !.co[c].at = "final",
                        !.co[c].pd = free_data(@)], "resume", NoopCo)

\* unhandled_exception: AsyncThrow stores and the body ends normally;
\* SyncThrow rethrows out of the resume that was running the body and the
\* coroutine is left suspended at its final suspend point.
Unhandled(s, c) ==
  LET s1 == Note(s, Ev("unhandled", c, 0, 0)) IN
  IF IsAsyncThrow(s1.co[c].flavor)
    THEN Final([s1 EXCEPT !.co[c].exc = unhandled_exception(@)], c)
    ELSE Goto([s1 EXCEPT !.co[c].st = "done", !.co[c].at = "final",
                         !.thrown = TRUE], "ret", NoopCo)

\* return_value / return_void: BasicReturn<T> stores, BasicReturn<void>,
\* BasicYield and YieldWithContinuation do nothing
Return(s, c, v) ==
  IF s.co[c].void \/ IsGenerator(s.co[c].flavor)
    THEN s
    ELSE [s EXCEPT !.co[c].pd = init_data(@, v)]

\* yield_value: init_data, then suspend_always or suspend_with_continuation
Yield_nostore(s, c, v) ==
  Handoff([s EXCEPT !.co[c].st = "suspended", !.co[c].at = "yield",
                    !.co[c].pc = @ + 1], c, 0)

Yield(s, c, v) ==
  Handoff([s EXCEPT !.co[c].pd = init_data(@, v),
                    !.co[c].st = "suspended", !.co[c].at = "yield",
                    !.co[c].pc = @ + 1], c, 0)

\* BasicGenerator::await_resume: if (this->done()) return std::nullopt
exhausted_never(r) == FALSE

\* std::nullopt for an empty slot
exhausted_empty(r) == IsGenerator(r.flavor) /\ ~has_value(r.pd)

exhausted(r) == IsGenerator(r.flavor) /\ done(r)

\* BasicTask::await_resume / BasicGenerator::await_resume on the frame r:
\* [kind, val, r] with kind "value", "throw" or "assert"
AwaitResume(r) ==
  LET x == IF IsAsyncThrow(r.flavor) THEN rethrow_exception(r.exc)
                                     ELSE [throws |-> FALSE, exc |-> r.exc]
      r1 == [r EXCEPT !.exc = x.exc]
      t == data_take(r1.pd)
  IN IF x.throws THEN [kind |-> "throw", val |-> Thrown, r |-> r1]
     ELSE IF exhausted(r1)
       THEN [kind |-> "value", val |-> NullOpt, r |-> r1]
     ELSE IF ~IsGenerator(r.flavor) /\ r.void
       THEN LET u == data_void(r1.pd)
            IN IF u.ok
                 THEN [kind |-> "value", val |-> Void,
                       r |-> [r1 EXCEPT !.pd = u.p]]
                 ELSE [kind |-> "assert", val |-> u.val, r |-> r1]
     ELSE IF ~t.ok THEN [kind |-> "assert", val |-> t.val, r |-> r1]
     ELSE [kind |-> "value", val |-> t.val, r |-> [r1 EXCEPT !.pd = t.p]]

\* BasicTask::await_resume that moves whatever Traits::move_result says
await_resume_traits_move(r, move) ==
  LET thrown == IsAsyncThrow(r.flavor) /\ r.exc
      r1 == [r EXCEPT !.exc = FALSE]
      t == data_take(r.pd)
  IN IF thrown THEN [kind |-> "throw", val |-> Thrown, r |-> r1]
     ELSE IF IsGenerator(r.flavor) /\ done(r)
       THEN [kind |-> "value", val |-> NullOpt, r |-> r]
     ELSE IF ~IsGenerator(r.flavor) /\ r.void
       THEN [kind |-> "value", val |-> Void, r |-> r]
     ELSE IF ~t.ok THEN [kind |-> "assert", val |-> t.val, r |-> r]
     ELSE [kind |-> "value", val |-> t.val, r |-> [r EXCEPT !.pd = t.p]]

\* BasicTask::await_resume of the traits based revision: a stored exception
\* is cleared and rethrown; a finished generator gives nullopt; the value is
\* moved out with data() && when Traits::move_result is set and is copied
\* from data() & when it is not
await_resume_traits(r, move) ==
  LET thrown == IsAsyncThrow(r.flavor) /\ r.exc
      r1 == [r EXCEPT !.exc = FALSE]
      t == IF move THEN data_take(r.pd)
           ELSE [ok |-> data_ref(r.pd).ok, val |-> data_ref(r.pd).val,
                 p |-> r.pd]
  IN IF thrown THEN [kind |-> "throw", val |-> Thrown, r |-> r1]
     ELSE IF IsGenerator(r.flavor) /\ done(r)
       THEN [kind |-> "value", val |-> NullOpt, r |-> r]
     ELSE IF ~IsGenerator(r.flavor) /\ r.void
       THEN [kind |-> "value", val |-> Void, r |-> r]
     ELSE IF ~t.ok THEN [kind |-> "assert", val |-> t.val, r |-> r]
     ELSE [kind |-> "value", val |-> t.val, r |-> [r EXCEPT !.pd = t.p]]

\* the assertion await_resume trips over when there is no value to take
AssertName(f) ==
  IF IsGenerator(f) THEN "assert(has_value())" ELSE "assert(!is_empty)"

\* BasicTask::await_suspend / BasicGenerator::await_suspend of b, called
\* with the continuation h; the handle it returns is resumed next
AwaitSuspend(s, b, h) ==
  LET f == s.co[b].flavor
      r == IF HasContinuation(f) THEN set_continuation(s.co[b].cont, h)
                                 ELSE no_set_continuation(s.co[b].cont, h)
  IN IF ~r.ret
       THEN \* can't store the continuation - execute synchronously
            Goto(Push(Note(s, Ev("await_suspend", b, h, h)), "sync", h, b),
                 "resume", b)
     ELSE IF ~r.ok THEN Abort(s, "assert(!_continuation)")
     ELSE LET n == IF did_initial_suspend(f) THEN b ELSE NoopCo IN
          IF IsGenerator(f) /\ ~did_initial_suspend(f)
            THEN Abort(s, "assert(did_initial_suspend())")
            ELSE Goto([Note(s, Ev("await_suspend", b, h, n))
                         EXCEPT !.co[b].cont = r.c], "resume", n)

\* the rest of co_await b in c once c is resumed (or b was ready)
AfterAwait(s, c) ==
  LET b == s.co[c].body[s.co[c].pc].arg
      a == AwaitResume(s.co[b])
      s0 == Note(s, Ev("ready", b, c, IF await_ready(s.co[b]) THEN 1 ELSE 0))
      s1 == Note([s0 EXCEPT !.co[b] = a.r], Ev("await_resume", b, c, a.val))
  IN IF s.co[b].st \in {"none", "destroyed"}
       THEN Abort(s, "use of a destroyed coroutine")
     ELSE IF a.kind = "assert" THEN Abort(s1, AssertName(s.co[b].flavor))
     ELSE IF a.kind = "throw" THEN Unhandled(s1, c)
     ELSE Goto([s1 EXCEPT !.co[c].got = Append(@, a.val),
                          !.co[c].pc = @ + 1], "body", c)

\* co_await b in the body of c
Await(s, c, b) ==
  IF s.co[b].st \in {"none", "destroyed"}
    THEN Abort(s, "use of a destroyed coroutine")
  ELSE IF await_ready(s.co[b]) THEN AfterAwait(s, c)
  ELSE AwaitSuspend([s EXCEPT !.co[c].st = "suspended",
                              !.co[c].at = "await"], b, c)

\* calling the coroutine function b from the body of c (or from the host,
\* c = NoopCo): the frame is set up and, unless initial_suspend suspends,
\* the body runs in the caller up to its first suspension
Create_lazy(s, c, b) ==
  Goto(Push(Note([s EXCEPT !.co[b].st = "suspended", !.co[b].at = "initial"],
                 Ev("create", b, 0, 0)), "create", c, b), "ret", NoopCo)

Create_eager(s, c, b) ==
  Goto(Push(Note([s EXCEPT !.co[b].st = "suspended", !.co[b].at = "initial"],
                 Ev("create", b, 0, 0)), "create", c, b), "resume", b)

Create(s, c, b) ==
  LET s1 == Push(Note([s EXCEPT !.co[b].st = "suspended",
                                !.co[b].at = "initial"],
                      Ev("create", b, 0, 0)), "create", c, b)
  IN IF did_initial_suspend(s.co[b].flavor) THEN Goto(s1, "ret", NoopCo)
                                            ELSE Goto(s1, "resume", b)

\* ss << v1 << " " << ... << vk, the text get_seq returns, as the number
\* whose digits to the base FmtBase are v1 ... vk
RECURSIVE Format(_)
Format(q) ==
  IF q = <<>> THEN 0
  ELSE Format(SubSeq(q, 1, Len(q) - 1)) * FmtBase + q[Len(q)]

\* the instruction pc of the body of c
Body(s, c) ==
  LET r == s.co[c]
      i == r.body[r.pc]
      s0 == Note(s, Ev("exec", c, r.pc, 0))
  IN CASE i.op = "create" -> Create(s0, c, i.arg)
       [] i.op = "susp" ->
            Goto([s0 EXCEPT !.co[c].st = "suspended", !.co[c].at = "inner",
                            !.co[c].pc = @ + 1], "resume", NoopCo)
       [] i.op = "await" -> Await(s0, c, i.arg)
       [] i.op = "yield" -> Yield(s0, c, i.arg)
       [] i.op = "ret" -> Final(Return(s0, c, i.arg), c)
       [] i.op = "throw" -> Unhandled(s0, c)
       [] i.op = "let" ->
            Goto([s0 EXCEPT !.co[c].loc[i.arg[1]] = i.arg[2],
                            !.co[c].pc = @ + 1], "body", c)
       [] i.op = "add" ->
            Goto([s0 EXCEPT !.co[c].loc[i.arg[1]] = @ + r.loc[i.arg[2]],
                            !.co[c].pc = @ + 1], "body", c)
       [] i.op = "jump" -> Goto([s0 EXCEPT !.co[c].pc = i.arg], "body", c)
       [] i.op = "yieldloc" -> Yield(s0, c, r.loc[i.arg])
       [] i.op = "yieldgot" -> Yield(s0, c, r.got[Len(r.got)])
       [] i.op = "retfmt" -> Final(Return(s0, c, Format(r.got)), c)

\* the suspended coroutine c continues where it was suspended
Exec(s, c) ==
  IF s.co[c].st /= "suspended"
    THEN Abort(s, "resume of a coroutine that is not suspended")
  ELSE LET s1 == Note([s EXCEPT !.co[c].st = "running"],
                       Ev("enter", c, s.co[c].pc, 0)) IN
       IF s.co[c].at = "await" THEN AfterAwait(s1, c)
                               ELSE Goto(s1, "body", c)

\* coroutine_handle::resume(): the noop coroutine returns to the caller of
\* the resume() in progress
Resume(s, c) ==
  IF c = NoopCo THEN Goto(s, "ret", NoopCo)
  ELSE IF c = Null THEN Abort(s, "resume of a null handle")
  ELSE Exec(s, c)

\* a return where an exception that leaves the resume() inside
\* await_suspend passes the awaiting coroutine by and leaves it suspended
Ret_past_awaiter(s) ==
  IF s.stack = <<>> THEN Goto(s, "halt", NoopCo)
  ELSE
    LET f == Head(s.stack)
        s1 == [s EXCEPT !.stack = Tail(@)]
    IN IF f.kind = "create"
         THEN IF s.thrown
                THEN LET s2 == IF IsBasicCoroutine(s.co[f.b].flavor) THEN s1
                               ELSE [s1 EXCEPT !.co[f.b].st = "destroyed",
                                               !.co[f.b].pd = free_data(@)]
                     IN IF f.c = NoopCo THEN Goto(s2, "ret", NoopCo)
                        ELSE Unhandled([s2 EXCEPT !.thrown = FALSE], f.c)
              ELSE IF f.c = NoopCo THEN Goto(s1, "ret", NoopCo)
              ELSE Goto([s1 EXCEPT !.co[f.c].pc = @ + 1], "body", f.c)
       ELSE IF s.thrown THEN Goto(s1, "ret", NoopCo)
       ELSE Goto([s1 EXCEPT !.woken = @ \cup {<<f.b, f.c>>}], "resume", f.c)

\* the innermost call returns, normally or by an exception:
\*  - a coroutine function: an exception unwinds the return object, whose
\*    destructor (BasicTask, BasicGenerator) destroys the frame, and is
\*    unhandled in the calling body;
\*  - the resume() inside await_suspend: await_suspend returns the
\*    continuation, which is resumed; an exception is rethrown in the
\*    awaiting coroutine
Ret(s) ==
  IF s.stack = <<>> THEN Goto(s, "halt", NoopCo)
  ELSE
    LET f == Head(s.stack)
        s1 == [s EXCEPT !.stack = Tail(@)]
    IN IF f.kind = "create"
         THEN IF s.thrown
                THEN LET s2 == IF IsBasicCoroutine(s.co[f.b].flavor) THEN s1
                               ELSE [s1 EXCEPT !.co[f.b].st = "destroyed",
                                               !.co[f.b].pd = free_data(@)]
                     IN IF f.c = NoopCo THEN Goto(s2, "ret", NoopCo)
                        ELSE Unhandled([s2 EXCEPT !.thrown = FALSE], f.c)
              ELSE IF f.c = NoopCo THEN Goto(s1, "ret", NoopCo)
              ELSE Goto([s1 EXCEPT !.co[f.c].pc = @ + 1], "body", f.c)
       ELSE IF s.thrown
         THEN IF f.c = NoopCo THEN Goto(s1, "ret", NoopCo)
              ELSE Unhandled([s1 EXCEPT !.thrown = FALSE,
                                        !.co[f.c].st = "running"], f.c)
       ELSE Goto([s1 EXCEPT !.woken = @ \cup {<<f.b, f.c>>}], "resume", f.c)

Step(s) ==
  CASE s.ctl.op = "resume" -> Resume(s, s.ctl.c)
    [] s.ctl.op = "body" -> Body(s, s.ctl.c)
    [] s.ctl.op = "ret" -> Ret(s)

\* n further steps of each state of S, fewer where the call returns
RECURSIVE Steps(_, _)
Steps(S, n) ==
  IF n = 0 THEN S
  ELSE Steps({IF x.ctl.op = "halt" THEN x ELSE Step(x) : x \in S}, n - 1)

\* the steps of one call by the host, up to its return; the states between
\* steps are bound as set elements, so that each is computed once
RECURSIVE Run(_)
Run(s) ==
  IF s.ctl.op = "halt" THEN s
  ELSE CHOOSE r \in {Run(x) : x \in Steps({s}, 8)} : TRUE

(***************************************************************************)
(* The programs: coroutine 1 is created by the host; coroutine 2, when     *)
(* used, is created and awaited by the body of coroutine 1, and its handle *)
(* is visible to the host (test/suspend.cpp).                              *)
(***************************************************************************)
Unused == NewCo("Task", TRUE, <<>>)

Rets(isvoid) == IF isvoid THEN {Void} ELSE Values

\* bodies of a non-generator: [susp;] (ret v | throw)
TaskBodies(f, isvoid) ==
  LET ends == {<<Instr("ret", v)>> : v \in Rets(isvoid)}
                \cup {<<Instr("throw", 0)>>}
  IN ends \cup (IF EnableAwait(f)
                  THEN {<<Instr("susp", 0)>> \o e : e \in ends}
                  ELSE {})

YieldSeqs == UNION {[1..n -> Values] : n \in 0..MaxYields}

YieldBody(y) ==
  [i \in 1..(Len(y) + 1) |->
     IF i <= Len(y) THEN Instr("yield", y[i]) ELSE Instr("ret", Void)]

\* bodies of a generator: [susp;] yield v1; ... yield vn; ret
GenBodies(f) ==
  {YieldBody(y) : y \in YieldSeqs}
    \cup (IF EnableAwait(f)
            THEN {<<Instr("susp", 0)>> \o YieldBody(y) : y \in YieldSeqs}
            ELSE {})

Susp(n) == [i \in 1..n |-> Instr("susp", 0)]

\* body of coroutine 1: create 2; [susp;] await 2 (k times); [susp;] ret
AwaitBody(k, pre, post) ==
  <<Instr("create", 2)>> \o Susp(pre) \o [i \in 1..k |-> Instr("await", 2)]
    \o Susp(post) \o <<Instr("ret", Void)>>

OuterFlavors == {"Task", "ImmediateTask"}
InnerTaskFlavors == {"Immediate", "Lazy", "Task", "ImmediateTask"}
GenFlavors == {"Generator", "AsyncGenerator"}

NestedTask ==
  UNION {
    {[c \in Ids |-> IF c = 1 THEN NewCo(x[1], TRUE, AwaitBody(1, x[2], x[3]))
                             ELSE NewCo(y[1], y[2], b)] :
       b \in TaskBodies(y[1], y[2])} :
    x \in OuterFlavors \X (0..1) \X (0..1),
    y \in InnerTaskFlavors \X BOOLEAN}

NestedGen ==
  UNION {
    {[c \in Ids |-> IF c = 1 THEN NewCo(x[1], TRUE, AwaitBody(x[2], 0, 0))
                             ELSE NewCo(fb, FALSE, b)] :
       b \in GenBodies(fb)} :
    x \in OuterFlavors \X (1..(MaxYields + 1)), fb \in GenFlavors}

Solo ==
  UNION {
    {[c \in Ids |-> IF c = 1 THEN NewCo(y[1], y[2], b) ELSE Unused] :
       b \in TaskBodies(y[1], y[2])} :
    y \in InnerTaskFlavors \X BOOLEAN}
  \cup
  UNION {
    {[c \in Ids |-> IF c = 1 THEN NewCo(f, FALSE, b) ELSE Unused] :
       b \in GenBodies(f)} :
    f \in GenFlavors}
  \cup
  {[c \in Ids |-> IF c = 1 THEN NewCo("FireAndForget", TRUE, b) ELSE Unused] :
     b \in TaskBodies("FireAndForget", TRUE)}

Programs == NestedTask \cup NestedGen \cup Solo

\* the coroutines some body creates, and those the host creates
Created(c) ==
  \E d \in Ids : \E i \in 1..Len(co[d].body) :
     co[d].body[i] = Instr("create", c)

Roots == {c \in Ids : co[c].body /= <<>> /\ ~Created(c)}

(***************************************************************************)
(* The host                                                                *)
(***************************************************************************)
S0 == [co |-> co, log |-> log, fault |-> fault, thrown |-> FALSE,
       woken |-> {}, stack |-> <<>>, ctl |-> [op |-> "halt", c |-> NoopCo]]

\* the state a host call on c leaves; an exception that leaves the call is
\* caught by the host
Commit(s, c, awaits) ==
  /\ co' = s.co
  /\ log' = IF s.fault = NoFault /\ s.thrown
              THEN Append(s.log, Ev("host_catch", c, 0, 0)) ELSE s.log
  /\ fault' = s.fault
  /\ hwait' = {d \in hwait \cup awaits : <<d, NoopCo>> \notin s.woken}
  /\ UNCHANGED hres

\* the host calls the coroutine function
HostCreate(c) ==
  /\ fault = NoFault
  /\ c \in Roots
  /\ co[c].st = "none"
  /\ Commit(Run(Create(S0, NoopCo, c)), c, {})
  /\ UNCHANGED <<uvars, hvars>>

\* CoroutineBase::resume of a coroutine that is suspended anywhere but at a
\* co_await of another coroutine; a generator is resumed by its consumer
\* only, once the consumer has read the last value
HostResume(c) ==
  /\ fault = NoFault
  /\ co[c].st = "suspended"
  /\ co[c].at /= "await"
  /\ IsGenerator(co[c].flavor) /\ co[c].at /= "inner"
       => c \in Roots /\ ~has_value(co[c].pd)
  /\ Commit(Run(Resume(Note(S0, Ev("resume", c, 0, 0)), c)), c, {})
  /\ UNCHANGED <<uvars, hvars>>

\* CoroutineBase::resume of a coroutine that is suspended at a co_await of
\* another coroutine
HostResumeAwaiting(c) ==
  /\ fault = NoFault
  /\ co[c].st = "suspended"
  /\ co[c].at = "await"
  /\ Commit(Run(Resume(Note(S0, Ev("resume", c, 0, 0)), c)), c, {})
  /\ UNCHANGED <<uvars, hvars>>

\* t.await_suspend(std::noop_coroutine()).resume() once await_ready is false;
\* the handle of a coroutine that is itself awaiting is not resumed this way
HostAwaitSuspend(c) ==
  /\ fault = NoFault
  /\ c \in Roots
  /\ co[c].st \in {"suspended", "done"}
  /\ ~IsBasicCoroutine(co[c].flavor)
  /\ ~await_ready(co[c])
  /\ c \notin hwait
  /\ did_initial_suspend(co[c].flavor) => co[c].at /= "await"
  /\ Commit(Run(AwaitSuspend(S0, c, NoopCo)), c, {c})
  /\ UNCHANGED <<uvars, hvars>>

\* t.await_resume() once await_ready is true
HostAwaitResume(c) ==
  /\ fault = NoFault
  /\ c \in Roots
  /\ co[c].st \in {"suspended", "done"}
  /\ ~IsBasicCoroutine(co[c].flavor)
  /\ await_ready(co[c])
  /\ Len(hres[c]) < MaxCalls
  /\ LET a == AwaitResume(co[c]) IN
       /\ co' = [co EXCEPT ![c] = a.r]
       /\ hres' = [hres EXCEPT ![c] = Append(@, a.val)]
       /\ log' = Append(log, Ev("await_resume", c, NoopCo, a.val))
       /\ fault' = IF a.kind = "assert" THEN AssertName(co[c].flavor)
                                       ELSE NoFault
  /\ UNCHANGED hwait
  /\ UNCHANGED <<uvars, hvars>>

Threads == 1..3      \* execution contexts: a writer and two readers
HandleIds == 1..2    \* handle objects: co1 and the co2 it is moved to

NoHandle == [st |-> "none", handle |-> Null, cls |-> "none", called |-> {}]

\* a context that calls nothing
Idle ==
  [ops |-> <<>>, pc |-> 1, step |-> 1, seen |-> FALSE, got |-> NoData,
   is_empty |-> FALSE]

HInit ==
  /\ hd = [a \in HandleIds |-> NoHandle]
  /\ freed = [c \in Ids |-> 0]
  /\ th = [t \in Threads |-> Idle]

RInit ==
  /\ co \in Programs
  /\ log = <<>>
  /\ fault = NoFault
  /\ hres = [c \in Ids |-> <<>>]
  /\ hwait = {}

Init ==
  /\ RInit
  /\ HInit
  /\ move_result = TRUE
  /\ pd = PromiseData
  /\ link = Null
  /\ last = [op |-> "none", arg |-> Null, val |-> Void]
  /\ prev = [op |-> "none", arg |-> Null, val |-> Void]
  /\ ufault = NoFault

Next ==
  \/ \E c \in Ids : HostCreate(c)
  \/ \E c \in Ids : HostResume(c)
  \/ \E c \in Ids : HostAwaitSuspend(c)
  \/ \E c \in Ids : HostAwaitResume(c)

\* a host that keeps to the await protocol
Spec == Init /\ [][Next]_vars

NextFree ==
  \/ Next
  \/ \E c \in Ids : HostResumeAwaiting(c)

\* a host that also resumes coroutines that are awaiting another one
SpecFree == Init /\ [][NextFree]_vars

\* t.await_resume() of a task type with result traits, once await_ready is
\* true
HostAwaitResumeTraits(c) ==
  /\ fault = NoFault
  /\ c \in Roots
  /\ co[c].st \in {"suspended", "done"}
  /\ ~IsBasicCoroutine(co[c].flavor)
  /\ await_ready(co[c])
  /\ Len(hres[c]) < MaxCalls
  /\ LET a == await_resume_traits(co[c], move_result) IN
       /\ co' = [co EXCEPT ![c] = a.r]
       /\ hres' = [hres EXCEPT ![c] = Append(@, a.val)]
       /\ log' = Append(log, Ev("await_resume", c, NoopCo, a.val))
       /\ fault' = IF a.kind = "assert" THEN AssertName(co[c].flavor)
                                       ELSE NoFault
  /\ UNCHANGED hwait
  /\ UNCHANGED <<uvars, hvars>>

TraitsInit ==
  /\ RInit
  /\ HInit
  /\ co \in Solo
  /\ move_result \in BOOLEAN
  /\ pd = PromiseData
  /\ link = Null
  /\ last = [op |-> "none", arg |-> Null, val |-> Void]
  /\ prev = [op |-> "none", arg |-> Null, val |-> Void]
  /\ ufault = NoFault

TraitsNext ==
  \/ \E c \in Ids : HostCreate(c)
  \/ \E c \in Ids : HostResume(c)
  \/ \E c \in Ids : HostAwaitSuspend(c)
  \/ \E c \in Ids : HostAwaitResumeTraits(c)

\* a host that keeps to the await protocol with one task, moving (Task<T>)
\* or copying (CopyTask<T>) its result
SpecTraits == TraitsInit /\ [][TraitsNext]_vars

(***************************************************************************)
(* One task whose body passes through n suspension points (get_one).       *)
(***************************************************************************)
\* co_await std::suspend_always{} n times, then co_return
SuspBodies(f, isvoid) ==
  {Susp(n) \o <<Instr("ret", v)>> :
     n \in 0..(IF EnableAwait(f) THEN MaxSusp ELSE 0), v \in Rets(isvoid)}

SuspPrograms ==
  UNION {
    {[c \in Ids |-> IF c = 1 THEN NewCo(y[1], y[2], b) ELSE Unused] :
       b \in SuspBodies(y[1], y[2])} :
    y \in InnerTaskFlavors \X BOOLEAN}

SuspInit ==
  /\ co \in SuspPrograms
  /\ log = <<>>
  /\ fault = NoFault
  /\ hres = [c \in Ids |-> <<>>]
  /\ hwait = {}
  /\ HInit
  /\ move_result = TRUE
  /\ pd = PromiseData
  /\ link = Null
  /\ last = [op |-> "none", arg |-> Null, val |-> Void]
  /\ prev = [op |-> "none", arg |-> Null, val |-> Void]
  /\ ufault = NoFault

SuspNext ==
  \/ \E c \in Ids : HostCreate(c)
  \/ \E c \in Ids : HostResume(c)
  \/ \E c \in Ids : HostAwaitResume(c)

\* a host that creates one task, resumes it and reads its result
SpecSusp == SuspInit /\ [][SuspNext]_vars

(***************************************************************************)
(* The Fibonacci generators and get_seq: frame 1 is get_seq, frame 2 the   *)
(* generator the host makes (fibonacci or async_fib), frame 3 the          *)
(* fibonacci inside async_fib.                                             *)
(***************************************************************************)
FibIds == 1..3

\* Generator<int> fibonacci()
fibonacci ==
  NewCo("Generator", FALSE,
        <<Instr("let", <<"a0", 1>>), Instr("let", <<"a1", 1>>),
          Instr("yieldloc", "a0"), Instr("yieldloc", "a1"),
          Instr("add", <<"a0", "a1">>), Instr("add", <<"a1", "a0">>),
          Instr("jump", 3)>>)

\* AsyncGenerator<int> async_fib()
async_fib ==
  NewCo("AsyncGenerator", FALSE,
        <<Instr("create", 3), Instr("await", 3), Instr("yieldgot", Void),
          Instr("jump", 2)>>)

\* AutoTask<std::string> get_seq(G generator, int rounds)
get_seq(rounds) ==
  NewCo("ImmediateTask", FALSE,
        [i \in 1..rounds |-> Instr("await", 2)]
          \o <<Instr("retfmt", Void)>>)

FibPrograms ==
  {[c \in FibIds |-> CASE c = 1 -> get_seq(k) [] c = 2 -> fibonacci
                        [] c = 3 -> Unused] : k \in 0..MaxRounds}
  \cup {[c \in FibIds |-> CASE c = 1 -> get_seq(k) [] c = 2 -> async_fib
                             [] c = 3 -> fibonacci] : k \in 0..MaxRounds}
  \cup {[c \in FibIds |-> IF c = 2 THEN fibonacci ELSE Unused]}

\* the host calls fibonacci() or async_fib(), and get_seq with the fresh
\* generator
FibCreate(c) ==
  /\ fault = NoFault
  /\ c \in Ids
  /\ co[c].body /= <<>>
  /\ co[c].st = "none"
  /\ c = 1 => co[2].st = "suspended" /\ co[2].at = "initial"
  /\ Commit(Run(Create(S0, NoopCo, c)), c, {})
  /\ UNCHANGED <<uvars, hvars>>

\* fib.resume() once the last value has been read
FibResume ==
  /\ fault = NoFault
  /\ co[2].st = "suspended"
  /\ ~has_value(co[2].pd)
  /\ Len(hres[2]) < MaxRounds
  /\ Commit(Run(Resume(Note(S0, Ev("resume", 2, 0, 0)), 2)), 2, {})
  /\ UNCHANGED <<uvars, hvars>>

\* fib.await_resume() / fib_seq.await_resume() once await_ready is true
FibAwaitResume(c) ==
  /\ fault = NoFault
  /\ c \in Ids
  /\ co[c].st \in {"suspended", "done"}
  /\ await_ready(co[c])
  /\ Len(hres[c]) < MaxRounds
  /\ LET a == AwaitResume(co[c]) IN
       /\ co' = [co EXCEPT ![c] = a.r]
       /\ hres' = [hres EXCEPT ![c] = Append(@, a.val)]
       /\ log' = Append(log, Ev("await_resume", c, NoopCo, a.val))
       /\ fault' = IF a.kind = "assert" THEN AssertName(co[c].flavor)
                                       ELSE NoFault
  /\ UNCHANGED hwait
  /\ UNCHANGED <<uvars, hvars>>

FibInit ==
  /\ co \in FibPrograms
  /\ log = <<>>
  /\ fault = NoFault
  /\ hres = [c \in Ids |-> <<>>]
  /\ hwait = {}
  /\ HInit
  /\ move_result = TRUE
  /\ pd = PromiseData
  /\ link = Null
  /\ last = [op |-> "none", arg |-> Null, val |-> Void]
  /\ prev = [op |-> "none", arg |-> Null, val |-> Void]
  /\ ufault = NoFault

FibNext ==
  \/ \E c \in Ids : FibCreate(c)
  \/ FibResume
  \/ \E c \in Ids : FibAwaitResume(c)

\* the Fibonacci tests
SpecFib == FibInit /\ [][FibNext]_vars

(***************************************************************************)
(* The handle objects: construction, move, destroy() and destruction.      *)
(***************************************************************************)
\* the class template a flavour's handle is an instance of
HandleClass(f) ==
  IF IsBasicCoroutine(f) THEN "BasicCoroutine"
  ELSE IF IsGenerator(f) THEN "BasicGenerator" ELSE "BasicTask"

\* ~BasicTask and ~BasicGenerator destroy the frame; BasicCoroutine has no
\* destructor
destructor_destroys(cls) == cls \in {"BasicTask", "BasicGenerator"}

\* operator bool
nonempty(o) == o.handle /= Null

\* auto b = std::move(a): no move constructor is declared, and BasicTask
\* and BasicGenerator declare a destructor, so the implicit copy
\* constructor makes b; the implicit move constructor of BasicCoroutine
\* copies the std::coroutine_handle as well.  The source is left as it was.
move_construct(o) ==
  [from |-> o, to |-> [st |-> "live", handle |-> o.handle, cls |-> o.cls,
                       called |-> {}]]

\* frames a call has destroyed: a frame without a final suspend that ran to
\* its end, a frame whose return object was unwound
FreedBy(s) ==
  [c \in Ids |->
     freed[c] + (IF s.co[c].st = "destroyed" /\ co[c].st /= "destroyed"
                   THEN 1 ELSE 0)]

\* std::coroutine_handle::destroy on frame c; on a frame that is already
\* destroyed the behaviour is undefined
handle_destroy(c) ==
  /\ freed' = [freed EXCEPT ![c] = @ + 1]
  /\ IF co[c].st \in {"suspended", "done"}
       THEN /\ co' = [co EXCEPT ![c].st = "destroyed"]
            /\ fault' = NoFault
       ELSE /\ co' = co
            /\ fault' \in {NoFault, "destroy of a destroyed coroutine"}

\* the host calls the coroutine function and keeps the return object
HCreate(c) ==
  /\ fault = NoFault
  /\ c \in Roots
  /\ co[c].st = "none"
  /\ hd[1].st = "none"
  /\ LET s == Run(Create(S0, NoopCo, c)) IN
       /\ Commit(s, c, {})
       /\ freed' = FreedBy(s)
       /\ hd' = IF s.thrown \/ s.fault /= NoFault THEN hd
                ELSE [hd EXCEPT ![1] = [st |-> "live", handle |-> c,
                                        cls |-> HandleClass(co[c].flavor),
                                        called |-> {}]]
  /\ UNCHANGED <<uvars, move_result, th>>

\* auto b = std::move(a)
HMove(a, b) ==
  /\ fault = NoFault
  /\ a /= b
  /\ hd[a].st = "live"
  /\ hd[b].st = "none"
  /\ hd' = [hd EXCEPT ![a] = move_construct(hd[a]).from,
                      ![b] = move_construct(hd[a]).to]
  /\ log' = Append(log, Ev("move", a, b, 0))
  /\ UNCHANGED <<co, fault, hres, hwait, freed>>
  /\ UNCHANGED <<uvars, move_result, th>>

\* a.resume() while the coroutine is suspended, as in HostResume
HResume(a) ==
  /\ fault = NoFault
  /\ hd[a].st = "live"
  /\ nonempty(hd[a])
  /\ LET c == hd[a].handle IN
       /\ co[c].st = "suspended"
       /\ co[c].at /= "await"
       /\ IsGenerator(co[c].flavor) /\ co[c].at /= "inner"
            => ~has_value(co[c].pd)
       /\ LET s == Run(Resume(Note(S0, Ev("resume", c, 0, 0)), c)) IN
            /\ Commit(s, c, {})
            /\ freed' = FreedBy(s)
  /\ UNCHANGED hd
  /\ UNCHANGED <<uvars, move_result, th>>

\* a.resume() on a coroutine that is suspended at its final suspend point
\* or is destroyed: CoroutineBase::resume makes no check, and
\* std::coroutine_handle::resume has undefined behaviour
HResumeDone(a) ==
  /\ fault = NoFault
  /\ hd[a].st = "live"
  /\ nonempty(hd[a])
  /\ co[hd[a].handle].st \in {"done", "destroyed"}
  /\ "resume" \notin hd[a].called
  /\ hd' = [hd EXCEPT ![a].called = @ \cup {"resume"}]
  /\ log' = Append(log, Ev("resume", hd[a].handle, 0, 0))
  /\ fault' \in {NoFault, "resume of a coroutine that is not suspended"}
  /\ UNCHANGED <<co, hres, hwait, freed>>
  /\ UNCHANGED <<uvars, move_result, th>>

\* a.destroy(), at most once for each object; called names the misuse-prone
\* calls already made on the object
HDestroy(a) ==
  /\ fault = NoFault
  /\ hd[a].st = "live"
  /\ nonempty(hd[a])
  /\ "destroy" \notin hd[a].called
  /\ handle_destroy(hd[a].handle)
  /\ hd' = [hd EXCEPT ![a].handle = Null, ![a].called = @ \cup {"destroy"}]
  /\ log' = Append(log, Ev("destroy", a, hd[a].handle, 0))
  /\ UNCHANGED <<hres, hwait>>
  /\ UNCHANGED <<uvars, move_result, th>>

\* the object a goes out of scope
HDtor(a) ==
  /\ fault = NoFault
  /\ hd[a].st = "live"
  /\ IF destructor_destroys(hd[a].cls) /\ nonempty(hd[a])
       THEN /\ handle_destroy(hd[a].handle)
            /\ log' = Append(log, Ev("dtor", a, hd[a].handle, 1))
       ELSE /\ UNCHANGED <<co, fault, freed>>
            /\ log' = Append(log, Ev("dtor", a, hd[a].handle, 0))
  /\ hd' = [hd EXCEPT ![a].st = "gone"]
  /\ UNCHANGED <<hres, hwait>>
  /\ UNCHANGED <<uvars, move_result, th>>

HNext ==
  \/ \E c \in Ids : HCreate(c)
  \/ \E a, b \in HandleIds : HMove(a, b)
  \/ \E a \in HandleIds : HResume(a)
  \/ \E a \in HandleIds : HResumeDone(a)
  \/ \E a \in HandleIds : HDestroy(a)
  \/ \E a \in HandleIds : HDtor(a)

HandleInit ==
  /\ Init
  /\ co \in Solo

\* a host that creates one coroutine and moves, resumes, destroys and drops
\* its handles
SpecHandle == HandleInit /\ [][HNext]_vars

(***************************************************************************)
(* Unit level specification: one promise's slot and link driven by         *)
(* arbitrary calls of their member functions.                              *)
(***************************************************************************)
NoCall == [op |-> "none", arg |-> Null, val |-> Void]

UInit ==
  /\ pd = PromiseData
  /\ link = Null
  /\ last = NoCall
  /\ prev = NoCall
  /\ ufault = NoFault
  /\ co = [c \in Ids |-> Unused]
  /\ log = <<>>
  /\ fault = NoFault
  /\ hres = [c \in Ids |-> <<>>]
  /\ hwait = {}
  /\ HInit
  /\ move_result = TRUE

URecord(call) ==
  /\ prev' = last
  /\ last' = call

U_init_data(v) ==
  /\ ufault = NoFault
  /\ pd.ctor < MaxWrites
  /\ pd' = init_data(pd, v)
  /\ URecord([op |-> "init_data", arg |-> v, val |-> Void])
  /\ UNCHANGED <<link, ufault>>
  /\ UNCHANGED <<rvars, hvars>>

U_has_value ==
  /\ ufault = NoFault
  /\ URecord([op |-> "has_value", arg |-> Null, val |-> has_value(pd)])
  /\ UNCHANGED <<pd, link, ufault>>
  /\ UNCHANGED <<rvars, hvars>>

\* data() & that empties the slot as data() && does
U_data_ref_take ==
  /\ ufault = NoFault
  /\ LET r == data_ref(pd) IN
       /\ URecord([op |-> "read", arg |-> Null, val |-> r.val])
       /\ ufault' = IF r.ok THEN NoFault ELSE "assert(has_value())"
  /\ pd' = data_take(pd).p
  /\ UNCHANGED link
  /\ UNCHANGED <<rvars, hvars>>

U_data_ref ==
  /\ ufault = NoFault
  /\ LET r == data_ref(pd) IN
       /\ URecord([op |-> "read", arg |-> Null, val |-> r.val])
       /\ ufault' = IF r.ok THEN NoFault ELSE "assert(has_value())"
  /\ UNCHANGED <<pd, link>>
  /\ UNCHANGED <<rvars, hvars>>

U_data_take ==
  /\ ufault = NoFault
  /\ LET r == data_take(pd) IN
       /\ URecord([op |-> "take", arg |-> Null, val |-> r.val])
       /\ ufault' = IF r.ok THEN NoFault ELSE "assert(!is_empty)"
       /\ pd' = r.p
  /\ UNCHANGED link
  /\ UNCHANGED <<rvars, hvars>>

U_set_continuation(h) ==
  /\ ufault = NoFault
  /\ LET r == set_continuation(link, h) IN
       /\ URecord([op |-> "set", arg |-> h, val |-> r.ret])
       /\ ufault' = IF r.ok THEN NoFault ELSE "assert(!_continuation)"
       /\ link' = r.c
  /\ UNCHANGED pd
  /\ UNCHANGED <<rvars, hvars>>

U_suspend_with_continuation ==
  /\ ufault = NoFault
  /\ LET r == suspend_with_continuation(link) IN
       /\ URecord([op |-> "consume", arg |-> Null,
                   val |-> sus_await_suspend(r.sus)])
       /\ link' = r.c
  /\ UNCHANGED <<pd, ufault>>
  /\ UNCHANGED <<rvars, hvars>>

UNext ==
  \/ \E v \in Values : U_init_data(v)
  \/ U_has_value
  \/ U_data_ref
  \/ U_data_take
  \/ \E h \in 1..MaxVal : U_set_continuation(h)
  \/ U_suspend_with_continuation

SpecPromise == UInit /\ [][UNext]_vars

(***************************************************************************)
(* Properties of the slot and the link (SpecPromise).                      *)
(***************************************************************************)
\* C1: exactly-once slot.  init_data(v) directly followed by data() && gives
\* back v and leaves the slot empty; a data() && or data() & that directly
\* follows a data() && trips an assertion.
C1_ExactlyOnceSlot ==
  /\ (prev.op = "init_data" /\ last.op = "take")
       => /\ last.val = prev.arg
          /\ ~has_value(pd)
          /\ ufault = NoFault
  /\ (prev.op = "take" /\ last.op \in {"take", "read"})
       => ufault /= NoFault

\* a value was written and taken, and the take was repeated
C1_Witness ==
  /\ prev.op = "take" /\ prev.val \in Values
  /\ last.op = "take"
  /\ ufault = "assert(!is_empty)"

\* C2: exactly-once continuation.  set_continuation(h) directly followed by
\* suspend_with_continuation hands back h and clears the link; consuming
\* when nothing is set gives the noop coroutine; a set_continuation directly
\* after a set_continuation trips an assertion.
C2_ExactlyOnceContinuation ==
  /\ (prev.op = "set" /\ last.op = "consume")
       => last.val = prev.arg /\ link = Null
  /\ (last.op = "consume" /\ prev.op \in {"consume", "none"})
       => last.val = NoopCo /\ link = Null
  /\ (prev.op = "set" /\ last.op = "set")
       => ufault = "assert(!_continuation)"

\* a continuation was set and handed back by the next consume
C2_Witness ==
  /\ prev.op = "set"
  /\ last.op = "consume" /\ last.val = prev.arg /\ last.val /= NoopCo

(***************************************************************************)
(* Properties of the coroutines (Spec, SpecFree).                          *)
(***************************************************************************)
\* the values the body of c yields, in order
YieldsOf(c) ==
  LET y == SelectSeq(co[c].body, LAMBDA i : i.op = "yield")
  IN [i \in 1..Len(y) |-> y[i].arg]

\* what the consumer of c got from its await_resume calls so far: the host
\* for a coroutine the host created, the body of coroutine 1 for the other
ResultsOf(c) == IF c \in Roots THEN hres[c] ELSE co[1].got

\* C3: generator exhaustion.  The await_resume calls on a generator whose
\* body yields N values return these N values in the order they were
\* yielded and nullopt from then on, and none trips an assertion.
C3_GeneratorExhaustion ==
  \A c \in Ids :
    IsGenerator(co[c].flavor) /\ co[c].body /= <<>> =>
      /\ fault = NoFault
      /\ \A i \in 1..Len(ResultsOf(c)) :
            ResultsOf(c)[i] = IF i <= Len(YieldsOf(c)) THEN YieldsOf(c)[i]
                                                       ELSE NullOpt

\* a generator yielding two different values was read four times
C3_Witness ==
  /\ IsGenerator(co[1].flavor)
  /\ Len(YieldsOf(1)) = 2 /\ YieldsOf(1)[1] /= YieldsOf(1)[2]
  /\ Len(hres[1]) >= 4
  /\ hres[1][3] = NullOpt /\ hres[1][4] = NullOpt

\* C4: exception once.  Of the await_resume calls the host makes on one
\* coroutine at most one rethrows the exception that left its body.
C4_ExceptionOnce ==
  \A c \in Ids :
    Cardinality({i \in 1..Len(hres[c]) : hres[c][i] = Thrown}) <= 1

\* C5: nested completion ordering.  With coroutine 1 awaiting coroutine 2,
\* both Task or ImmediateTask, coroutine 1 is never done while coroutine 2
\* is not.
C5_NestedCompletionOrder ==
  (/\ co[1].flavor \in {"Task", "ImmediateTask"}
   /\ co[2].flavor \in {"Task", "ImmediateTask"}
   /\ co[2].body /= <<>>)
    => (done(co[1]) => done(co[2]))

\* coroutine 2 suspended on the way, finished and woke coroutine 1, which
\* then finished too
C5_Witness ==
  /\ co[1].flavor \in {"Task", "ImmediateTask"}
  /\ co[2].flavor \in {"Task", "ImmediateTask"}
  /\ co[2].body /= <<>> /\ co[2].body[1].op = "susp"
  /\ \E i \in 1..Len(log) : log[i] = Ev("wake", 2, 1, 1)
  /\ done(co[1]) /\ done(co[2])

\* the coroutine that c, suspended at a co_await, is awaiting
Awaited(c) == co[c].body[co[c].pc].arg

\* C6: resume while awaiting.  A resume() by the host of a coroutine that is
\* suspended at its co_await of a coroutine that is not done leaves it
\* suspended at that co_await.
C6_ResumeWhileAwaiting ==
  [][\A c \in Ids :
       (/\ co[c].st = "suspended" /\ co[c].at = "await"
        /\ ~done(co[Awaited(c)])
        /\ Len(log') > Len(log)
        /\ log'[Len(log) + 1] = Ev("resume", c, 0, 0))
         => (/\ co'[c].st = "suspended" /\ co'[c].at = "await"
             /\ co'[c].pc = co[c].pc)]_vars

\* the log entries i with event e on coroutine b
Events(e, b) == {i \in 1..Len(log) : log[i][1] = e /\ log[i][2] = b}

\* C7: suspend-handoff with continuation storage.  await_suspend(h) of a
\* Task or AsyncGenerator returns the coroutine's own handle and the
\* coroutine is entered next; await_suspend(h) of an ImmediateTask returns
\* the noop coroutine and the coroutine is not entered; either way h is in
\* the link for as long as the awaiter is suspended.  An ImmediateTask runs
\* its first instruction right when it is created; a Task or AsyncGenerator
\* runs it right after an await_suspend or a resume() by the host.
C7_HandoffWithContinuation ==
  \A b \in Ids :
    /\ co[b].flavor \in {"Task", "AsyncGenerator"} =>
         /\ \A i \in Events("await_suspend", b) :
               /\ log[i][4] = b
               /\ i < Len(log) /\ log[i + 1][1] = "enter" /\ log[i + 1][2] = b
         /\ \A i \in Events("create", b) :
               i < Len(log) => ~(log[i + 1][1] = "enter" /\ log[i + 1][2] = b)
         /\ \A i \in Events("enter", b) :
               log[i][3] = 1 =>
                 /\ log[i - 1][1] \in {"await_suspend", "resume"}
                 /\ log[i - 1][2] = b
    /\ co[b].flavor = "ImmediateTask" =>
         /\ \A i \in Events("await_suspend", b) :
               /\ log[i][4] = NoopCo
               /\ i < Len(log) => log[i + 1][1] /= "enter"
         /\ \A i \in Events("create", b) :
               /\ i + 2 <= Len(log)
               /\ log[i + 1] = Ev("enter", b, 1, 0)
               /\ log[i + 2] = Ev("exec", b, 1, 0)
    /\ (/\ fault = NoFault /\ co[b].st = "suspended" /\ co[b].at = "await"
        /\ HasContinuation(co[Awaited(b)].flavor))
         => co[Awaited(b)].cont = b
    /\ (b \in hwait /\ HasContinuation(co[b].flavor)) => co[b].cont = NoopCo

\* the host awaited the Task 1, which created and awaited the
\* ImmediateTask 2 and is suspended there
C7_Witness ==
  /\ co[1].flavor = "Task" /\ co[2].flavor = "ImmediateTask"
  /\ co[2].body /= <<>>
  /\ Events("await_suspend", 1) /= {}
  /\ Events("await_suspend", 2) /= {}
  /\ co[1].st = "suspended" /\ co[1].at = "await" /\ co[2].cont = 1
  /\ co[1].cont = NoopCo

SyncFlavors == {"Immediate", "Lazy", "Generator"}

\* the first log entry after i that is a "ready" of b, or 0
NextReady(i, b) ==
  LET js == {j \in (i + 1)..Len(log) : log[j][1] = "ready" /\ log[j][2] = b}
  IN IF js = {} THEN 0 ELSE CHOOSE j \in js : \A k \in js : j <= k

\* C8: suspend-handoff without continuation storage.  The link of an
\* Immediate, Lazy or Generator never holds anything; its await_suspend(h)
\* returns h after entering the coroutine right there, once; when the
\* awaiter goes on after its co_await the coroutine's await_ready is true,
\* and so it is for the host once its call has returned.
C8_HandoffWithoutContinuation ==
  \A b \in Ids :
    co[b].flavor \in SyncFlavors /\ co[b].body /= <<>> =>
      /\ co[b].cont = Null
      /\ \A i \in Events("await_suspend", b) :
            /\ log[i][4] = log[i][3]
            /\ i < Len(log) /\ log[i + 1][1] = "enter" /\ log[i + 1][2] = b
            /\ NextReady(i, b) /= 0 =>
                 /\ log[NextReady(i, b)][4] = 1
                 /\ Cardinality({j \in Events("enter", b) :
                                   i < j /\ j < NextReady(i, b)}) = 1
      /\ (/\ fault = NoFault /\ log /= <<>>
          /\ log[Len(log)][1] = "exec" /\ log[Len(log)][2] = b)
           => await_ready(co[b])

\* coroutine 1 awaited the Lazy 2, which ran in place, and went on
C8_Witness ==
  /\ co[2].flavor = "Lazy" /\ co[2].body /= <<>>
  /\ \E i \in Events("await_suspend", 2) :
       /\ log[i][3] = 1
       /\ NextReady(i, 2) /= 0
  /\ done(co[1]) /\ done(co[2])

\* C9: symmetric handoff at completion.  When a coroutine reaches its final
\* suspend with the continuation of another coroutine in its link, that
\* coroutine is entered next, within the same call by the host, and no
\* coroutine is left running when the call returns.
C9_SymmetricHandoff ==
  /\ \A b \in Ids : \A i \in Events("wake", b) :
        (log[i][4] = 1 /\ log[i][3] \in Ids) =>
          /\ i < Len(log)
          /\ log[i + 1][1] = "enter" /\ log[i + 1][2] = log[i][3]
  /\ fault = NoFault => \A c \in Ids : co[c].st /= "running"

\* one resume() of the Task 1 ran the whole body of the Task 2 it awaits
\* and took coroutine 1 on to its next suspension
C9_Witness ==
  /\ co[1].flavor = "Task" /\ co[2].flavor = "Task"
  /\ Events("resume", 1) = {2} /\ Events("resume", 2) = {}
  /\ Events("await_suspend", 1) = {}
  /\ Events("wake", 2) /= {}
  /\ done(co[2])
  /\ co[1].st = "suspended" /\ co[1].at = "inner" /\ co[1].pc = 4

AutoStartFlavors == {"Immediate", "ImmediateTask", "FireAndForget"}

\* the log entries in which someone outside resumes or awaits c
Starts(c) ==
  Events("resume", c) \cup Events("await_suspend", c)
    \cup Events("await_resume", c)

\* C11: auto-start.  When the call that creates an Immediate, ImmediateTask
\* or FireAndForget has returned, its body has run from its first
\* instruction up to its first suspension or its end, and that happened
\* before any resume or await of it.
C11_AutoStart ==
  \A c \in Ids :
    (co[c].flavor \in AutoStartFlavors /\ co[c].st /= "none") =>
      /\ ~(co[c].st = "suspended" /\ co[c].at = "initial")
      /\ fault = NoFault => co[c].st \in {"suspended", "done", "destroyed"}
      /\ \A i \in Events("create", c) :
            /\ i + 2 <= Len(log)
            /\ log[i + 1] = Ev("enter", c, 1, 0)
            /\ log[i + 2] = Ev("exec", c, 1, 0)
            /\ \A j \in Starts(c) : j > i + 2

\* a FireAndForget was created and is suspended inside its body, with no
\* resume made yet
C11_Witness ==
  /\ co[1].flavor = "FireAndForget"
  /\ co[1].st = "suspended" /\ co[1].at = "inner" /\ co[1].pc = 2
  /\ Starts(1) = {}

InitialSuspendFlavors == {"Lazy", "Task", "Generator", "AsyncGenerator"}

\* C12: initial suspend.  A Lazy, Task, Generator or AsyncGenerator that has
\* been created and neither resumed nor awaited is suspended at its initial
\* suspend point: no instruction of its body has run, nothing is in its slot
\* and no exception is stored.
C12_InitialSuspend ==
  \A c \in Ids :
    (/\ co[c].flavor \in InitialSuspendFlavors /\ co[c].st /= "none"
     /\ Events("resume", c) \cup Events("await_suspend", c) = {})
      => /\ co[c].st = "suspended" /\ co[c].at = "initial" /\ co[c].pc = 1
         /\ Events("exec", c) = {} /\ Events("enter", c) = {}
         /\ ~has_value(co[c].pd) /\ ~co[c].exc

\* coroutine 1 created the Task 2 and went on to its own suspension; the
\* Task has not run
C12_Witness ==
  /\ co[2].flavor = "Task" /\ co[2].body /= <<>>
  /\ co[2].st = "suspended" /\ co[2].at = "initial"
  /\ co[1].st = "suspended" /\ co[1].at = "inner" /\ co[1].pc = 3

\* the last log entry in which the body of c ran an instruction or someone
\* called await_resume of c, or 0
LastUse(c) ==
  LET js == Events("exec", c) \cup Events("await_resume", c)
  IN IF js = {} THEN 0 ELSE CHOOSE j \in js : \A k \in js : k <= j

\* C13: ready-check.  await_ready of a Task-like handle is true exactly when
\* the coroutine is at its final suspend point.  await_ready of a generator
\* is true exactly when the coroutine is at its final suspend point or a
\* yielded value has not been read: false before the first resume, true
\* after a yield until await_resume has taken the value, true once done.
C13_ReadyCheck ==
  \A c \in Ids :
    (/\ co[c].body /= <<>> /\ co[c].st \in {"suspended", "done"}
     /\ ~IsBasicCoroutine(co[c].flavor)) =>
      IF IsGenerator(co[c].flavor)
        THEN /\ await_ready(co[c]) <=>
                  (co[c].at = "final" \/ co[c].pd.data \in Values)
             /\ co[c].at \in {"initial", "inner"} => ~await_ready(co[c])
             /\ co[c].at = "yield" =>
                  (await_ready(co[c]) <=> log[LastUse(c)][1] = "exec")
             /\ co[c].at = "final" => await_ready(co[c])
        ELSE await_ready(co[c]) <=> co[c].at = "final"

\* a generator whose first value was read has yielded its second value
C13_Witness ==
  /\ co[1].flavor = "Generator"
  /\ co[1].st = "suspended" /\ co[1].at = "yield" /\ co[1].pc = 3
  /\ Len(hres[1]) = 1
  /\ await_ready(co[1])

CaptureFlavors == {"Task", "ImmediateTask", "AsyncGenerator"}

RethrowFlavors == {"Immediate", "Lazy", "Generator", "FireAndForget"}

\* the continuation in the link of c when log entry i was written: the one
\* the last await_suspend of c before i stored, unless c has handed it back
Pending(c, i) ==
  LET js == {j \in Events("await_suspend", c) : j < i}
      j == CHOOSE j \in js : \A k \in js : k <= j
  IN IF js = {} \/ \E k \in Events("wake", c) : j < k /\ k < i
       THEN Null ELSE log[j][3]

\* C14: capture keeps the completion machinery running.  When an exception
\* leaves the body of a Task, ImmediateTask or AsyncGenerator, the coroutine
\* is done with the exception stored and its link empty; a continuation that
\* was in the link is resumed right then and gets the exception from its
\* await_resume; the host's call that was running the body returns
\* normally, and the first await_resume the host makes throws.
C14_CaptureKeepsCompletion ==
  \A c \in Ids : co[c].flavor \in CaptureFlavors =>
    /\ Events("host_catch", c) = {}
    /\ \A i \in Events("unhandled", c) :
          /\ done(co[c]) /\ co[c].exc /\ co[c].cont = Null
          /\ Pending(c, i) /= Null =>
               /\ i < Len(log)
               /\ log[i + 1] = Ev("wake", c, Pending(c, i), 1)
          /\ Pending(c, i) \in Ids =>
               /\ i + 4 <= Len(log)
               /\ log[i + 2][1] = "enter" /\ log[i + 2][2] = Pending(c, i)
               /\ log[i + 3] = Ev("ready", c, Pending(c, i), 1)
               /\ log[i + 4] = Ev("await_resume", c, Pending(c, i), Thrown)
          /\ (c \in Roots /\ hres[c] /= <<>>) => hres[c][1] = Thrown

\* the Task 2 threw while coroutine 1 was awaiting it; coroutine 1 was
\* resumed, got the exception and finished with it, and the host got it
\* from coroutine 1
C14_Witness ==
  /\ co[2].flavor = "Task" /\ co[2].body /= <<>>
  /\ \E i \in Events("unhandled", 2) : Pending(2, i) = 1
  /\ done(co[1]) /\ done(co[2])
  /\ hres[1] /= <<>> /\ hres[1][1] = Thrown

\* C15: rethrow.  An exception that leaves the body of an Immediate, Lazy,
\* Generator or FireAndForget leaves the very call that was running the
\* body: the call of the coroutine function, resume() or the await_suspend
\* that resumed it in place.  The host's call throws, or the exception is
\* unhandled in the coroutine that made the call.  Nothing is stored, and no
\* await_resume of the coroutine throws.
C15_RethrowIsSynchronous ==
  \A c \in Ids : co[c].flavor \in RethrowFlavors /\ co[c].body /= <<>> =>
    /\ ~co[c].exc
    /\ \A i \in Events("await_resume", c) : log[i][4] /= Thrown
    /\ \A i \in 1..Len(hres[c]) : hres[c][i] /= Thrown
    /\ \A i \in Events("unhandled", c) :
          /\ i > 3 /\ log[i - 1][1] = "exec" /\ log[i - 2][1] = "enter"
          /\ log[i - 3][2] = c
          /\ log[i - 3][1] =
               (IF log[i - 1][3] > 1 THEN "resume"
                ELSE IF did_initial_suspend(co[c].flavor)
                  THEN IF Pending(c, i) = Null /\ log[i - 3][1] = "resume"
                         THEN "resume" ELSE "await_suspend"
                ELSE "create")
          /\ i < Len(log)
          /\ IF c \in Roots \/ log[i - 3][1] = "resume"
               THEN log[i + 1] = Ev("host_catch", c, 0, 0)
               ELSE log[i + 1] = Ev("unhandled", 1, 0, 0)

\* coroutine 1 awaited the Lazy 2, whose body threw out of await_suspend,
\* and finished with that exception
C15_Witness ==
  /\ co[2].flavor = "Lazy" /\ co[2].body /= <<>>
  /\ \E i \in Events("unhandled", 2) :
       /\ log[i - 3][1] = "await_suspend"
       /\ log[i + 1] = Ev("unhandled", 1, 0, 0)
  /\ done(co[1]) /\ co[1].exc /\ ~co[2].exc

\* C20: slot liveness.  The slot is one cell that holds a value, a
\* moved-from object or nothing; has_value() is true exactly when it holds
\* a value; and a write leaves the written value in the slot, having run
\* the destructor of the value it found there, if any, exactly once.
C20_SlotLiveness ==
  /\ [](/\ pd.data \in Values \cup {NoData, MovedFrom}
        /\ has_value(pd) <=> pd.data \in Values)
  /\ [][pd'.ctor = pd.ctor + 1 =>
          /\ last'.op = "init_data"
          /\ has_value(pd') /\ pd'.data = last'.arg
          /\ pd'.dtor = pd.dtor + (IF has_value(pd) THEN 1 ELSE 0)]_vars

\* a value was written over a value
C20_Witness ==
  /\ prev.op = "init_data" /\ last.op = "init_data"
  /\ has_value(pd) /\ pd.data = last.arg
  /\ pd.ctor = 2 /\ pd.dtor = 1

(***************************************************************************)
(* Properties of the handle objects (SpecHandle).                          *)
(***************************************************************************)
\* the frames held by a handle whose destructor destroys them
Owned == {c \in Ids : co[c].body /= <<>>
                        /\ destructor_destroys(HandleClass(co[c].flavor))}

LastEvent == IF log = <<>> THEN Ev("none", 0, 0, 0) ELSE log[Len(log)]

\* C16: owning handles destroy their coroutine exactly once.  For a Task or
\* Generator handle: a move leaves the source empty and the destination
\* non-empty; destroy() leaves the handle empty; the destructor of a
\* non-empty handle leaves the frame destroyed; no frame is destroyed twice;
\* and once every handle object is gone the frame has been destroyed once.
C16_DestroyedExactlyOnce ==
  \A c \in Owned :
    /\ freed[c] <= 1
    /\ \A a, b \in HandleIds :
          (LastEvent = Ev("move", a, b, 0) /\ hd[b].handle = c)
             => ~nonempty(hd[a]) /\ nonempty(hd[b])
    /\ \A a \in HandleIds :
          LastEvent = Ev("destroy", a, c, 0)
             => ~nonempty(hd[a]) /\ co[c].st = "destroyed"
    /\ \A a \in HandleIds :
          LastEvent = Ev("dtor", a, c, 1) => co[c].st = "destroyed"
    /\ (hd[1].st = "gone" /\ hd[2].st /= "live") => freed[c] = 1

\* no destroy() has been called on any handle object
NoExplicitDestroy == \A a \in HandleIds : "destroy" \notin hd[a].called

\* C17: FireAndForget is self-managing.  It has started when the creating
\* call returns; as long as nobody calls destroy(), it is never left
\* completed and allocated: when its body has ended, by co_return or by an
\* exception, the frame has been freed, exactly once; and the destructor of
\* a handle object never destroys the frame.
C17_SelfManaging ==
  \A c \in Ids : (co[c].flavor = "FireAndForget" /\ co[c].st /= "none") =>
    /\ ~(co[c].st = "suspended" /\ co[c].at = "initial")
    /\ \A i \in 1..Len(log) :
          (log[i][1] = "dtor" /\ log[i][3] = c) => log[i][4] = 0
    /\ NoExplicitDestroy =>
          /\ freed[c] <= 1
          /\ co[c].st /= "done"
          /\ freed[c] = 1 <=> co[c].st = "destroyed"

LifecycleStep(c) ==
  LET ran == log' /= <<>> /\ log'[Len(log')][1] \notin {"destroy", "dtor"}
  IN \/ co'[c].st = co[c].st
     \/ co[c].st = "none" /\ co'[c].st \in {"suspended", "done"}
     \/ co[c].st = "suspended" /\ co'[c].st = "done"
     \/ co[c].st = "done" /\ co'[c].st = "destroyed"
     \/ co[c].st \in {"none", "suspended"} /\ co'[c].st = "destroyed" /\ ran

\* C19: the lifecycle state machine.  Every frame moves only along Created
\* -> (InitialSuspended | Running) -> (Suspended <-> Running)* -> Completed
\* -> Destroyed, a completed frame can only become destroyed, and resume()
\* on a completed frame ends the run with a failed assertion.
C19_Lifecycle ==
  /\ [](\A c \in Ids :
          (LastEvent = Ev("resume", c, 0, 0) /\ co[c].st = "done")
             => fault /= NoFault)
  /\ [][\A c \in Ids : LifecycleStep(c)]_vars

(***************************************************************************)
(* Further properties of the await protocol (Spec).                        *)
(***************************************************************************)
\* C21: the continuation link.  The link of a coroutine holds what the last
\* await_suspend stored unless the coroutine has handed it back since, and
\* nothing when the flavour has no link; the coroutine hands it back only
\* right after a co_yield, a co_return or an exception that ended its body;
\* and a coroutine that is suspended at a yield or is done has an empty
\* link.
C21_ContinuationLink ==
  \A c \in Ids :
    /\ co[c].cont = IF HasContinuation(co[c].flavor)
                      THEN Pending(c, Len(log) + 1) ELSE Null
    /\ \A i \in Events("wake", c) :
          /\ log[i][3] = Pending(c, i)
          /\ i > 1
          /\ log[i - 1][2] = c
          /\ \/ log[i - 1][1] = "unhandled" /\ log[i][4] = 1
             \/ /\ log[i - 1][1] = "exec"
                /\ co[c].body[log[i - 1][3]].op =
                     (IF log[i][4] = 1 THEN "ret" ELSE "yield")
    /\ (done(co[c]) \/ (co[c].st = "suspended" /\ co[c].at = "yield"))
          => co[c].cont = Null

\* coroutine 2 is suspended at a co_await of its own with its awaiter still
\* in its link
C21_Witness ==
  /\ co[2].flavor = "AsyncGenerator"
  /\ co[2].st = "suspended" /\ co[2].at = "inner"
  /\ co[2].cont = 1

(***************************************************************************)
(* Properties of the Fibonacci scenario (SpecFib).                         *)
(***************************************************************************)
RECURSIVE Fibonacci(_)
Fibonacci(n) == IF n <= 2 THEN 1 ELSE Fibonacci(n - 1) + Fibonacci(n - 2)

FirstTerms(k) == [i \in 1..k |-> Fibonacci(i)]

\* what the await_resume calls on b returned, in order
IsPull(e, b) == e[1] = "await_resume" /\ e[2] = b

Pulled(b) ==
  LET q == SelectSeq(log, LAMBDA e : IsPull(e, b))
  IN [i \in 1..Len(q) |-> q[i][4]]

\* C22: the Fibonacci scenario.  Whoever pulls, the values pulled from
\* fibonacci and from async_fib are the first terms of 1, 1, 2, 3, 5, 8, 13,
\* ... in order, and neither generator is ever done; get_seq with k rounds
\* is done when the call that creates it returns, has received the first k
\* terms and returns their text; nothing fails before a second
\* await_resume on get_seq.
C22_Fibonacci ==
  /\ \A b \in {2, 3} : co[b].body /= <<>> =>
        /\ Pulled(b) = FirstTerms(Len(Pulled(b)))
        /\ ~done(co[b])
  /\ co[1].body = <<>> => hres[2] = FirstTerms(Len(hres[2]))
  /\ (co[1].body /= <<>> /\ co[1].st /= "none") =>
        /\ done(co[1])
        /\ co[1].got = FirstTerms(Len(co[1].body) - 1)
        /\ hres[1] /= <<>> => hres[1][1] = Format(co[1].got)
  /\ fault /= NoFault => Len(hres[1]) = 2

\* get_seq(async_fib(), 7) has returned the text of 1 1 2 3 5 8 13
C22_Witness ==
  /\ co[2].flavor = "AsyncGenerator"
  /\ co[1].got = <<1, 1, 2, 3, 5, 8, 13>>
  /\ Pulled(3) = <<1, 1, 2, 3, 5, 8, 13>>
  /\ Len(hres[1]) = 1
  /\ fault = NoFault

(***************************************************************************)
(* PromiseData shared by execution contexts (value.h): every access to     *)
(* _is_empty and to _data is a step of its own.                            *)
(***************************************************************************)
Op(o, a) == [op |-> o, arg |-> a]

\* init_data whose clear() is not ordered after the construction
init_data_steps_early_clear == <<"free_data", "clear", "new", "new_end">>

\* init_data: free_data(); new (&_data) T(...); _is_empty.clear(release)
init_data_steps == <<"free_data", "new", "new_end", "clear">>

\* has_value: one acquire load
has_value_steps == <<"test">>

\* data() & : assert(has_value()); return _data
data_ref_steps == <<"assert_has_value", "load">>

\* data() && with a plain check in place of the test_and_set
data_take_steps_plain == <<"assert_has_value", "move">>

\* data() && : test_and_set(acq_rel); assert(!is_empty); std::move(_data)
data_take_steps == <<"test_and_set", "assert_not_empty", "move">>

StepsOf(o) ==
  CASE o = "init_data" -> init_data_steps
    [] o = "has_value" -> has_value_steps
    [] o = "data_ref"  -> data_ref_steps
    [] o = "data_take" -> data_take_steps

Running(r) == r.pc <= Len(r.ops)
Finished(r) == r.ops /= <<>> /\ ~Running(r)
Calls(r, o) == \E i \in 1..Len(r.ops) : r.ops[i].op = o

\* one access of a context r to the slot p: [p, r, fault]
SharedStep(p, r) ==
  LET o    == r.ops[r.pc]
      name == StepsOf(o.op)[r.step]
      adv  == IF r.step = Len(StepsOf(o.op))
                THEN [r EXCEPT !.pc = @ + 1, !.step = 1]
                ELSE [r EXCEPT !.step = @ + 1]
      R(p2, r2, f) == [p |-> p2, r |-> r2, fault |-> f]
  IN CASE name = "free_data" -> R(free_data(p), adv, NoFault)
       [] name = "new"       -> R([p EXCEPT !.data = Torn], adv, NoFault)
       [] name = "new_end"   ->
            R([p EXCEPT !.data = o.arg, !.ctor = @ + 1], adv, NoFault)
       [] name = "clear"     -> R([p EXCEPT !.is_empty = FALSE], adv, NoFault)
       [] name = "test"      ->
            IF has_value(p) THEN R(p, [adv EXCEPT !.seen = TRUE], NoFault)
                            ELSE R(p, r, NoFault)
       [] name = "assert_has_value" ->
            IF has_value(p) THEN R(p, adv, NoFault)
                            ELSE R(p, r, "assert(has_value())")
       [] name = "load"      -> R(p, [adv EXCEPT !.got = p.data], NoFault)
       [] name = "test_and_set" ->
            R([p EXCEPT !.is_empty = TRUE],
              [adv EXCEPT !.is_empty = p.is_empty], NoFault)
       [] name = "assert_not_empty" ->
            IF r.is_empty THEN R(p, r, "assert(!is_empty)")
                          ELSE R(p, adv, NoFault)
       [] name = "move"      ->
            R([p EXCEPT !.data = MovedFrom], [adv EXCEPT !.got = p.data],
              NoFault)

\* context t makes its next access; a failed assert ends the program
ThreadStep(t) ==
  /\ ufault = NoFault
  /\ Running(th[t])
  /\ LET x == SharedStep(pd, th[t]) IN
       /\ pd' = x.p
       /\ th' = [th EXCEPT ![t] = x.r]
       /\ ufault' = x.fault
  /\ UNCHANGED <<link, last, prev, rvars, hd, freed, move_result>>

NewThread(ops) == [Idle EXCEPT !.ops = ops]

\* who calls what on the one slot, and whether it starts empty or full
SharedPrograms ==
  {[pd |-> PromiseData,
    th |-> <<NewThread(<<Op("init_data", v)>>),
             NewThread(<<Op("has_value", 0), Op("data_ref", 0)>>),
             Idle>>] : v \in Values}
  \cup
  {[pd |-> init_data(PromiseData, v),
    th |-> <<NewThread(<<Op("data_take", 0)>>),
             NewThread(<<Op("data_take", 0)>>),
             Idle>>] : v \in Values}
  \cup
  {[pd |-> PromiseData,
    th |-> <<NewThread(<<Op("init_data", v)>>),
             NewThread(<<Op("has_value", 0), Op("data_take", 0)>>),
             NewThread(<<Op("has_value", 0), Op("data_take", 0)>>)>>] :
     v \in Values}

SharedInit ==
  /\ \E g \in SharedPrograms : pd = g.pd /\ th = g.th
  /\ link = Null
  /\ last = [op |-> "none", arg |-> Null, val |-> Void]
  /\ prev = [op |-> "none", arg |-> Null, val |-> Void]
  /\ ufault = NoFault
  /\ co = [c \in Ids |-> Unused]
  /\ log = <<>>
  /\ fault = NoFault
  /\ hres = [c \in Ids |-> <<>>]
  /\ hwait = {}
  /\ hd = [a \in HandleIds |-> NoHandle]
  /\ freed = [c \in Ids |-> 0]
  /\ move_result = TRUE

SharedNext == \E t \in Threads : ThreadStep(t)

\* execution contexts that interleave their accesses to one PromiseData
SpecShared == SharedInit /\ [][SharedNext]_vars

\* the values the slot was given: by init_data, or before the run
Written ==
  IF \E t \in Threads : Calls(th[t], "init_data")
    THEN {th[t].ops[1].arg : t \in {u \in Threads : Calls(th[u], "init_data")}}
    ELSE Values

Takers == {t \in Threads : Calls(th[t], "data_take")}

\* C25: a context that polls has_value() while another context performs
\* init_data(v) on the empty slot sees true only once the construction of
\* v is complete; with one writer and one reader the slot then holds v,
\* the read() after the poll passes its check and returns v.
C25_SlotVisibility ==
  \A t \in Threads : th[t].seen =>
    /\ pd.ctor = 1
    /\ Takers = {} =>
         /\ Written = {pd.data}
         /\ ufault = NoFault
         /\ Finished(th[t]) => th[t].got = pd.data

\* the reader saw has_value() true and its read() returned the value
C25_Witness ==
  /\ Takers = {}
  /\ Finished(th[1]) /\ Finished(th[2])
  /\ th[2].seen /\ th[2].got = MaxVal

\* the context has made the emptiness check of its data() &&
Tested(r) ==
  /\ Calls(r, "data_take")
  /\ Finished(r) \/ (r.ops[r.pc].op = "data_take" /\ r.step > 1)

\* ... and found the slot full
Passed(r) == Tested(r) /\ ~r.is_empty

\* C26: when contexts interleave their data() && on a slot that is full,
\* at most one of them finds the flag clear, and exactly one once all of
\* them have tested it; the one that does moves the value out, every
\* other one stops at assert(!is_empty) without touching the value.
C26_TakeIsAtomic ==
  /\ Cardinality({t \in Takers : Passed(th[t])}) <= 1
  /\ (Takers /= {} /\ \A t \in Takers : Tested(th[t]))
       => Cardinality({t \in Takers : Passed(th[t])}) = 1
  /\ \A t \in Takers :
       /\ Finished(th[t]) => Passed(th[t]) /\ th[t].got \in Written
       /\ (Tested(th[t]) /\ ~Passed(th[t])) =>
            /\ th[t].got = NoData
            /\ Running(th[t])
            /\ SharedStep(pd, th[t]).fault = "assert(!is_empty)"
            /\ SharedStep(pd, th[t]).p = pd
  /\ (Takers /= {} /\ ufault /= NoFault) =>
       /\ ufault = "assert(!is_empty)"
       /\ \E t \in Takers : Tested(th[t]) /\ ~Passed(th[t])

\* two data() && on a full slot: the first has the value, the second failed
C26_Witness ==
  /\ \A t \in Threads : ~Calls(th[t], "init_data")
  /\ Finished(th[1]) /\ th[1].got = MaxVal
  /\ Tested(th[2]) /\ th[2].is_empty
  /\ ufault = "assert(!is_empty)"

(***************************************************************************)
(* Teardown of a coroutine that holds the handle of another one.           *)
(***************************************************************************)
\* the BasicTask / BasicGenerator objects alive in the suspended frame c:
\* the coroutines its body has created
frame_locals(c) ==
  {d \in Ids : /\ co[d].st /= "none"
               /\ \E i \in 1..Len(co[c].body) :
                     co[c].body[i] = Instr("create", d)}

\* what an older promise did when it was destroyed:
\* ~PromiseContinuation destroys the stored continuation
continuation_dtor_destroys(r) ==
  IF r.cont \in Ids THEN <<r.cont>> ELSE <<>>

\* the implicit destructor of detail::Continuation leaves the stored
\* handle alone
continuation_dtor(r) == <<>>

\* std::coroutine_handle::destroy on the suspended frame c, as the frames
\* it destroys in order: c, then the frame owned by the object in c (whose
\* destructor calls destroy), then what the promise of that frame destroys
frame_destroy(c) ==
  IF frame_locals(c) = {} THEN <<c>> \o continuation_dtor(co[c])
  ELSE LET d == CHOOSE d \in frame_locals(c) : TRUE
       IN <<c, d>> \o continuation_dtor(co[d]) \o continuation_dtor(co[c])

\* ~BasicTask of the host's return object while its coroutine is suspended
TaskDtor(c) ==
  /\ fault = NoFault
  /\ c \in Roots
  /\ co[c].st = "suspended"
  /\ LET q == frame_destroy(c)
         n(x) == Cardinality({i \in 1..Len(q) : q[i] = x})
     IN /\ freed' = [x \in Ids |-> freed[x] + n(x)]
        /\ co' = [x \in Ids |-> IF n(x) > 0
                                  THEN [co[x] EXCEPT !.st = "destroyed"]
                                  ELSE co[x]]
        /\ log' = log \o [i \in 1..Len(q) |->
                            Ev("frame_destroy", q[i],
                               IF i = 1 THEN NoopCo ELSE q[i - 1], 0)]
        /\ fault' \in IF \E x \in Ids : n(x) > 1
                        THEN {NoFault, "destroy of a destroyed coroutine"}
                        ELSE {NoFault}
  /\ UNCHANGED <<hres, hwait, hd, move_result, th>>
  /\ UNCHANGED uvars

TeardownInit ==
  /\ co \in NestedTask \cup NestedGen
  /\ log = <<>>
  /\ fault = NoFault
  /\ hres = [c \in Ids |-> <<>>]
  /\ hwait = {}
  /\ HInit
  /\ move_result = TRUE
  /\ pd = PromiseData
  /\ link = Null
  /\ last = [op |-> "none", arg |-> Null, val |-> Void]
  /\ prev = [op |-> "none", arg |-> Null, val |-> Void]
  /\ ufault = NoFault

TeardownNext ==
  \/ \E c \in Ids : HostCreate(c)
  \/ \E c \in Ids : HostResume(c)
  \/ \E c \in Ids : TaskDtor(c)

\* a host that runs a task which awaits another coroutine and drops the
\* task while it is suspended
SpecTeardown == TeardownInit /\ [][TeardownNext]_vars

\* C24: when the host's handle of a task A that is suspended at a co_await
\* of the coroutine B it created is destroyed, the frame of A and then the
\* frame of B are destroyed, once each; nothing else happens: no body runs
\* and the continuation stored in B is not resumed.
C24_CascadingTeardown ==
  [][(co[1].st = "suspended" /\ co[1].at = "await"
        /\ co'[1].st = "destroyed")
       => /\ log' = log \o <<Ev("frame_destroy", 1, NoopCo, 0),
                               Ev("frame_destroy", 2, 1, 0)>>
          /\ freed' = [x \in Ids |-> freed[x] + 1]
          /\ freed = [x \in Ids |-> 0]
          /\ co' = [x \in Ids |-> [co[x] EXCEPT !.st = "destroyed"]]
          /\ fault' = NoFault]_vars

\* A was destroyed while it awaited B and was the continuation stored in B
C24_Witness ==
  /\ co[1].st = "destroyed" /\ co[1].at = "await"
  /\ co[2].st = "destroyed" /\ co[2].cont = 1
  /\ freed = [x \in Ids |-> 1]

(***************************************************************************)
(* Properties of resume() (SpecSusp).                                      *)
(***************************************************************************)
\* the resume() calls a body with Len(body) - 1 suspension points needs
ResumesNeeded(r) ==
  Len(r.body) - 1 + (IF did_initial_suspend(r.flavor) THEN 1 ELSE 0)

\* C23: resume() runs the body to its next suspension point or to its end.
\* A created task with N inner suspension points is done exactly when it
\* has been resumed N times (auto-started) or N + 1 times (initially
\* suspended); before that it is suspended, and each resume() took it one
\* suspension point further and no more.
C23_ResumeRunsToNextSuspension ==
  \A c \in Roots : co[c].st /= "none" =>
    LET n == Cardinality(Events("resume", c))
        started == n + (IF did_initial_suspend(co[c].flavor) THEN 0 ELSE 1)
    IN /\ n <= ResumesNeeded(co[c])
       /\ done(co[c]) <=> n = ResumesNeeded(co[c])
       /\ n < ResumesNeeded(co[c]) =>
            /\ co[c].st = "suspended"
            /\ co[c].pc = started + 1
            /\ co[c].at = (IF started = 0 THEN "initial" ELSE "inner")
            /\ Cardinality(Events("exec", c)) = started

\* a Task with three suspension points after three resumes, and after four
C23_Witness ==
  /\ co[1].flavor = "Task" /\ Len(co[1].body) = 4
  /\ Cardinality(Events("resume", 1)) = 4
  /\ done(co[1])
  /\ \E i \in Events("resume", 1) : i > 1 /\ log[i - 1] = Ev("exec", 1, 3, 0)

(***************************************************************************)
(* One generator whose body ends by returning or by throwing.              *)
(***************************************************************************)
\* yield v1; ... yield vn; throw
ThrowingGenBody(y) ==
  [i \in 1..(Len(y) + 1) |->
     IF i <= Len(y) THEN Instr("yield", y[i]) ELSE Instr("throw", 0)]

GenPrograms ==
  UNION {
    {[c \in Ids |-> IF c = 1 THEN NewCo(f, FALSE, b) ELSE Unused] :
       b \in GenBodies(f) \cup {ThrowingGenBody(y) : y \in YieldSeqs}} :
    f \in GenFlavors}

GenInit ==
  /\ co \in GenPrograms
  /\ log = <<>>
  /\ fault = NoFault
  /\ hres = [c \in Ids |-> <<>>]
  /\ hwait = {}
  /\ HInit
  /\ move_result = TRUE
  /\ pd = PromiseData
  /\ link = Null
  /\ last = [op |-> "none", arg |-> Null, val |-> Void]
  /\ prev = [op |-> "none", arg |-> Null, val |-> Void]
  /\ ufault = NoFault

GenNext ==
  \/ \E c \in Ids : HostCreate(c)
  \/ \E c \in Ids : HostResume(c)
  \/ \E c \in Ids : HostAwaitSuspend(c)
  \/ \E c \in Ids : HostAwaitResume(c)

\* a host that creates one generator and resumes, awaits and reads it
SpecGen == GenInit /\ [][GenNext]_vars

(***************************************************************************)
(* Properties of BasicGenerator::await_resume.                             *)
(***************************************************************************)
\* what await_resume on the generator frame r returns, if it returns:
\* std::nullopt exactly if r is done, else the value of the slot, which
\* it leaves empty
ResumeResult(r, val, r2) ==
  /\ val = NullOpt <=> done(r)
  /\ ~done(r) => /\ has_value(r.pd) /\ val = r.pd.data /\ val \in Values
                 /\ ~has_value(r2.pd)
  /\ done(r2) <=> done(r)

\* C27: an await_resume on a generator that returns (it neither rethrows
\* a stored exception nor fails assert(has_value())) returns std::nullopt
\* if and only if the generator is done at the call; otherwise it returns
\* the value in the slot and leaves the slot empty.  This holds of
\* await_resume on every generator frame the run reaches, and of every
\* call the host makes.
C27_ExhaustedIffDone ==
  /\ [](\A c \in Ids :
          (IsGenerator(co[c].flavor) /\ co[c].st \in {"suspended", "done"})
            => LET a == AwaitResume(co[c])
               IN a.kind = "value" => ResumeResult(co[c], a.val, a.r))
  /\ [][\A c \in Ids :
          (IsGenerator(co[c].flavor) /\ Len(hres'[c]) = Len(hres[c]) + 1
             /\ hres'[c][Len(hres'[c])] /= Thrown)
            => ResumeResult(co[c], hres'[c][Len(hres'[c])], co'[c])]_vars

\* an AsyncGenerator gave the host a value while suspended at its yield and
\* std::nullopt once it was done
C27_Witness ==
  /\ co[1].flavor = "AsyncGenerator"
  /\ done(co[1])
  /\ Len(hres[1]) = 2
  /\ hres[1][1] \in Values /\ hres[1][2] = NullOpt
  /\ ~has_value(co[1].pd)

(***************************************************************************)
(* Properties of the suspension at a yield and at completion.              *)
(***************************************************************************)
\* the log entries at which coroutine c reaches a co_yield or its end
Handoffs(c) ==
  {i \in 1..Len(log) :
     /\ log[i][2] = c
     /\ \/ log[i][1] = "unhandled"
        \/ log[i][1] = "exec" /\ co[c].body[log[i][3]].op \in {"yield", "ret"}}

\* what a running coroutine logs
BodyEvents == {"enter", "exec", "unhandled", "wake"}

\* C28: a coroutine with continuation storage suspends at every co_yield
\* and at its end.  With a continuation pending, the continuation is woken
\* and entered next (the host's std::noop_coroutine returns to the host);
\* with none, whatever runs next is not the coroutine,
\* which stays suspended at the yield, or done, until it is entered again:
\* it does not execute the instruction after the yield and its frame is
\* never destroyed by reaching the end.
C28_AlwaysSuspends ==
  \A c \in Ids : HasContinuation(co[c].flavor) =>
    /\ co[c].st /= "destroyed"
    /\ \A i \in Handoffs(c) :
         IF Pending(c, i) /= Null
           THEN /\ i + 1 <= Len(log)
                /\ log[i + 1][1] = "wake" /\ log[i + 1][2] = c
                /\ log[i + 1][3] = Pending(c, i)
                /\ Pending(c, i) \in Ids =>
                     /\ i + 2 <= Len(log)
                     /\ log[i + 2][1] = "enter"
                     /\ log[i + 2][2] = Pending(c, i)
                /\ Pending(c, i) = NoopCo =>
                     (i + 2 <= Len(log) => log[i + 2][1] \notin BodyEvents)
           ELSE /\ (i < Len(log) /\ log[i + 1][1] \in BodyEvents)
                     => log[i + 1][2] /= c
                /\ (\A j \in Events("enter", c) : j < i) =>
                     \/ done(co[c])
                     \/ /\ co[c].st = "suspended" /\ co[c].at = "yield"
                        /\ co[c].pc = log[i][3] + 1

\* an AsyncGenerator that nobody awaited went through two yields and its end
C28_Witness ==
  /\ co[1].flavor = "AsyncGenerator"
  /\ Events("await_suspend", 1) = {}
  /\ Cardinality(Handoffs(1)) = 3
  /\ done(co[1])

(***************************************************************************)
(* The exception policy of the flavours with continuation storage.         *)
(***************************************************************************)
CapturePrograms == GenPrograms \cup Solo \cup NestedTask

CaptureInit ==
  /\ co \in CapturePrograms
  /\ log = <<>>
  /\ fault = NoFault
  /\ hres = [c \in Ids |-> <<>>]
  /\ hwait = {}
  /\ HInit
  /\ move_result = TRUE
  /\ pd = PromiseData
  /\ link = Null
  /\ last = [op |-> "none", arg |-> Null, val |-> Void]
  /\ prev = [op |-> "none", arg |-> Null, val |-> Void]
  /\ ufault = NoFault

\* a host that runs tasks and generators whose bodies may throw
SpecCapture == CaptureInit /\ [][GenNext]_vars

\* C29: Task, ImmediateTask and AsyncGenerator store an exception that
\* leaves the body.  It is not thrown out of the resume() or the
\* await_suspend that was running the body: what follows in the run is
\* neither a catch by the host nor an unhandled exception of the awaiting
\* coroutine, and the coroutine is done with the exception stored.  It is
\* thrown by await_resume, and by nothing before the first await_resume.
C29_CapturePolicy ==
  \A c \in Ids : (HasContinuation(co[c].flavor) /\ co[c].body /= <<>>) =>
    /\ IsAsyncThrow(co[c].flavor)
    /\ \A i \in Events("unhandled", c) :
         /\ i < Len(log) => log[i + 1][1] \notin {"unhandled", "host_catch"}
         /\ done(co[c]) /\ co[c].exc
         /\ \A j \in (i + 1)..Len(log) :
              log[j][1] \in {"unhandled", "host_catch"} =>
                \E k \in Events("await_resume", c) :
                   i < k /\ k < j /\ log[k][4] = Thrown
         /\ \A k \in Events("await_resume", c) : i < k => log[k][4] = Thrown
    /\ \A k \in Events("await_resume", c) :
         log[k][4] = Thrown => \E i \in Events("unhandled", c) : i < k

\* an AsyncGenerator yielded a value, was resumed and threw: resume()
\* returned, the first await_resume gave the value and the second threw
C29_Witness ==
  /\ co[1].flavor = "AsyncGenerator"
  /\ Events("unhandled", 1) /= {}
  /\ Events("host_catch", 1) = {}
  /\ Len(hres[1]) = 2 /\ hres[1][1] \in Values /\ hres[1][2] = Thrown

(***************************************************************************)
(* Properties of the slot of a coroutine that returns void.                *)
(***************************************************************************)
VoidFrames ==
  {c \in Ids : co[c].void /\ ~IsGenerator(co[c].flavor) /\ co[c].body /= <<>>}

\* C30: the slot of a coroutine that returns void is never written, its
\* has_value() is false in every state, and its data() passes and changes
\* nothing in every state; so await_resume of a task that holds no
\* exception returns, whether or not the task is done, and leaves the task
\* as it was, and the host gets void from every await_resume that does not
\* rethrow.
C30_UnitSlot ==
  \A c \in VoidFrames :
    /\ co[c].pd = PromiseData
    /\ ~has_value_void(co[c].pd) /\ ~has_value(co[c].pd)
    /\ data_void(co[c].pd).ok /\ data_void(co[c].pd).p = co[c].pd
    /\ (co[c].st \in {"suspended", "done"} /\ ~co[c].exc) =>
         AwaitResume(co[c]) = [kind |-> "value", val |-> Void, r |-> co[c]]
    /\ \A i \in 1..Len(hres[c]) : hres[c][i] \in {Void, Thrown}
    /\ (~co[c].exc /\ hres[c] /= <<>>) => fault = NoFault

\* a Task that returns void was read twice once it was done
C30_Witness ==
  /\ 1 \in VoidFrames /\ co[1].flavor = "Task"
  /\ done(co[1]) /\ ~co[1].exc
  /\ hres[1] = <<Void, Void>>
  /\ co[1].pd = PromiseData

(***************************************************************************)
(* Properties of the wake-up of an awaiter.                                *)
(***************************************************************************)
\* C31: a coroutine wakes its stored continuation only when its
\* await_ready is true.  A Task or ImmediateTask wakes it at completion
\* only; never does the log entry before a wake show the co_await of a
\* std::suspend_always inside the body; an awaiting coroutine that is
\* woken is entered next and finds await_ready true, and when the host's
\* continuation is woken await_ready is true (and a task is done) as the
\* host's call returns.
C31_WokenOnlyWhenReady ==
  /\ [](\A c \in Ids : HasContinuation(co[c].flavor) =>
          \A i \in Events("wake", c) :
            /\ ~IsGenerator(co[c].flavor) => log[i][4] = 1
            /\ (i > 1 /\ log[i - 1][1] = "exec" /\ log[i - 1][2] = c)
                 => co[c].body[log[i - 1][3]].op /= "susp"
            /\ log[i][3] \in Ids =>
                 /\ i + 2 <= Len(log)
                 /\ log[i + 1][1] = "enter" /\ log[i + 1][2] = log[i][3]
                 /\ log[i + 2] = Ev("ready", c, log[i][3], 1))
  /\ [][\A c \in Ids : (c \in hwait /\ c \notin hwait') =>
          /\ await_ready(co'[c])
          /\ ~IsGenerator(co[c].flavor) => done(co'[c])]_vars

\* the Task 2 suspended inside its body while coroutine 1 awaited it, and
\* woke coroutine 1 when it was done
C31_Witness ==
  /\ co[2].flavor = "Task" /\ done(co[2]) /\ done(co[1])
  /\ \E i \in Events("exec", 2) : co[2].body[log[i][3]].op = "susp"
  /\ \E i \in Events("wake", 2) : log[i][3] = 1 /\ log[i][4] = 1

\* C32: a continuation that was stored once is woken at most once.  Of
\* one coroutine, any two wake-ups have an await_suspend that stored a
\* continuation between them, the first wake-up has one before it, and
\* once the coroutine has woken its continuation its link is empty until
\* the next await_suspend: a later yield or its completion wakes nobody.
C32_WokenAtMostOnce ==
  \A c \in Ids : HasContinuation(co[c].flavor) =>
    /\ \A i \in Events("wake", c) :
         /\ \E j \in Events("await_suspend", c) :
              /\ j < i /\ log[j][3] = log[i][3]
              /\ \A k \in Events("wake", c) : ~(j < k /\ k < i)
         /\ \A h \in Handoffs(c) :
              (i < h /\ \A j \in Events("await_suspend", c) : ~(i < j /\ j < h))
                => (h < Len(log) => log[h + 1][1] /= "wake")
    /\ Cardinality(Events("wake", c)) <= Cardinality(Events("await_suspend", c))
    /\ (\E i \in Events("wake", c) :
          \A j \in Events("await_suspend", c) : j < i) => co[c].cont = Null

\* an AsyncGenerator woke the host at its first yield; resumed without a
\* new await it went through its second yield and woke nobody
C32_Witness ==
  /\ co[1].flavor = "AsyncGenerator"
  /\ Cardinality(Events("await_suspend", 1)) = 1
  /\ Cardinality(Events("wake", 1)) = 1
  /\ Cardinality(Handoffs(1)) = 2
  /\ log[Len(log)][1] = "exec"

\* the log entries at which generator c executed a co_yield
YieldExecs(c) ==
  {h \in Events("exec", c) : co[c].body[log[h][3]].op = "yield"}

\* C33: a generator whose consumer goes through await_ready, await_suspend
\* (only if not ready) and await_resume is never resumed with an unread
\* value in its slot: whenever it is entered after a co_yield, an
\* await_resume has returned the yielded value in between; a value in the
\* slot is the one of the last co_yield, and every value constructed in the
\* slot has been returned by an await_resume or is still there.
C33_NoValueOverwritten ==
  \A c \in Ids : (IsGenerator(co[c].flavor) /\ co[c].body /= <<>>) =>
    /\ \A e \in Events("enter", c) : \A h \in YieldExecs(c) :
         (h < e /\ \A g \in YieldExecs(c) : ~(h < g /\ g < e))
           => \E k \in Events("await_resume", c) :
                 h < k /\ k < e /\ log[k][4] = co[c].body[log[h][3]].arg
    /\ has_value(co[c].pd) =>
         /\ co[c].st = "suspended" /\ co[c].at = "yield"
         /\ co[c].pd.data = co[c].body[co[c].pc - 1].arg
    /\ co[c].pd.ctor = Cardinality(YieldExecs(c))
    /\ Cardinality({k \in Events("await_resume", c) : log[k][4] \in Values})
         = co[c].pd.ctor - (IF has_value(co[c].pd) THEN 1 ELSE 0)

\* coroutine 1 awaited the AsyncGenerator 2 three times and got its two
\* different values and then std::nullopt
C33_Witness ==
  /\ co[2].flavor = "AsyncGenerator" /\ done(co[2]) /\ done(co[1])
  /\ Len(co[1].got) = 3
  /\ co[1].got[1] \in Values /\ co[1].got[2] \in Values
  /\ co[1].got[1] /= co[1].got[2] /\ co[1].got[3] = NullOpt
  /\ co[2].pd.ctor = 2

\* C34: with one awaiter for each coroutine (the host for the coroutine it
\* created, coroutine 1 for the coroutine it created) and a host that
\* resumes no coroutine that is suspended at a co_await and awaits none
\* again while the continuation it gave is pending,
\* assert(!_continuation) in set_continuation never fails: at every
\* await_suspend of a coroutine with continuation storage no continuation
\* is pending in it and its link is empty, and the continuation given is
\* the one in the link afterwards.
C34_SetContinuationPrecondition ==
  /\ fault /= "assert(!_continuation)"
  /\ \A c \in Ids : HasContinuation(co[c].flavor) =>
       \A j \in Events("await_suspend", c) :
         /\ Pending(c, j) = Null
         /\ Pending(c, j + 1) = log[j][3]
         /\ log[j][3] /= Null

\* coroutine 1 awaited three times an AsyncGenerator that suspended inside
\* its body while it held the continuation
C34_Witness ==
  /\ co[2].flavor = "AsyncGenerator" /\ co[2].body[1].op = "susp"
  /\ Cardinality(Events("await_suspend", 2)) = 3
  /\ \A j \in Events("await_suspend", 2) : log[j][3] = 1
  /\ done(co[1]) /\ fault = NoFault

(***************************************************************************)
(* A host that keeps resuming (test_suspend_step).                         *)
(***************************************************************************)
LiveInit ==
  /\ co \in NestedTask
  /\ log = <<>>
  /\ fault = NoFault
  /\ hres = [c \in Ids |-> <<>>]
  /\ hwait = {}
  /\ HInit
  /\ move_result = TRUE
  /\ pd = PromiseData
  /\ link = Null
  /\ last = [op |-> "none", arg |-> Null, val |-> Void]
  /\ prev = [op |-> "none", arg |-> Null, val |-> Void]
  /\ ufault = NoFault

LiveNext ==
  \/ \E c \in Ids : HostCreate(c)
  \/ \E c \in Ids : HostResume(c)

\* the loops of test_suspend_step: the host resumes coroutine 2 as long as
\* it is suspended and not done
SpecLive == LiveInit /\ [][LiveNext]_vars /\ WF_vars(HostResume(2))

AwaitingB == co[1].st = "suspended" /\ co[1].at = "await"

\* coroutine 2 is done and has woken coroutine 1, which went on
WokenByB ==
  /\ done(co[2])
  /\ ~AwaitingB
  /\ \E i \in Events("wake", 2) :
       /\ log[i][3] = 1
       /\ log[i + 1][1] = "enter" /\ log[i + 1][2] = 1
       /\ log[i + 2][1] = "ready" /\ log[i + 3][1] = "await_resume"

\* C35: no lost wake-up.  Once coroutine 1 is suspended at its co_await of
\* coroutine 2, and the host keeps resuming coroutine 2 while it is
\* suspended, coroutine 2 gets done, wakes coroutine 1, and coroutine 1 is
\* entered and goes on after its co_await.
C35_NoLostWakeup == AwaitingB ~> WokenByB

\* the host resumed the ImmediateTask 2 to its end; coroutine 1, which had
\* awaited it, went on and is suspended after its co_await
C35_Witness ==
  /\ co[2].flavor = "ImmediateTask" /\ done(co[2])
  /\ Events("resume", 2) /= {}
  /\ \E i \in Events("wake", 2) : log[i][3] = 1
  /\ co[1].st = "suspended" /\ co[1].at = "inner"
  /\ co[1].got /= <<>>


(***************************************************************************)
(* An await across two execution contexts.  Coroutine 1 (A) runs            *)
(* co_await b in context 1; coroutine 2 (B), an ImmediateTask that started  *)
(* when A created it and suspended inside its body, is resumed to its end   *)
(* in context 2.  Neither _continuation nor the frame state behind done()   *)
(* is atomic and nothing orders the two contexts, so each access is a step  *)
(* of its own and a read that follows an unordered write may still see the  *)
(* value from before it.  th[t] is the place of context t: [pc, sus].       *)
(***************************************************************************)
RaceCtx(pc) == [pc |-> pc, sus |-> Null]

\* a plain read of a location another context may have written: the value
\* now, or old, the value before that write
RacyRead(now, old) == {now, old}

RacePrograms ==
  {[c \in Ids |->
      IF c = 1
        THEN [NewCo(fa, TRUE, AwaitBody(1, 0, 0))
                EXCEPT !.st = "running", !.at = "await", !.pc = 2]
        ELSE [NewCo("ImmediateTask", v = Void,
                    Susp(k) \o <<Instr("ret", v)>>)
                EXCEPT !.st = "suspended", !.at = "inner", !.pc = 2]] :
     fa \in OuterFlavors, k \in 1..MaxSusp, v \in Values \cup {Void}}

RaceStep(t, pc) ==
  /\ fault = NoFault
  /\ th[t].pc = pc
  /\ UNCHANGED <<uvars, hres, hwait, hd, freed, move_result>>

\* BasicTask::await_ready in context 1; not ready, A is suspended and
\* await_suspend is called
R_await_ready ==
  /\ RaceStep(1, "await_ready")
  /\ \E r \in RacyRead(await_ready(co[2]), FALSE) :
       /\ log' = Append(log, Ev("ready", 2, 1, IF r THEN 1 ELSE 0))
       /\ co' = IF r THEN co
                     ELSE [co EXCEPT ![1].st = "suspended", ![1].at = "await"]
       /\ th' = [th EXCEPT ![1].pc = IF r THEN "await_resume"
                                          ELSE "await_suspend"]
  /\ UNCHANGED fault

\* BasicTask::await_suspend in context 1: set_continuation, and the noop
\* coroutine is returned, context 1 goes back to its caller
R_await_suspend ==
  /\ RaceStep(1, "await_suspend")
  /\ LET r == set_continuation(co[2].cont, 1)
         n == IF did_initial_suspend(co[2].flavor) THEN 2 ELSE NoopCo
     IN /\ fault' = IF r.ok THEN NoFault ELSE "assert(!_continuation)"
        /\ co' = [co EXCEPT ![2].cont = r.c]
        /\ log' = Append(log, Ev("await_suspend", 2, 1, n))
        /\ th' = [th EXCEPT ![1].pc = "idle"]

\* BasicTask::await_resume and the rest of A's body, in the context t that
\* continues A
R_await_resume(t) ==
  /\ RaceStep(t, "await_resume")
  /\ LET a == AwaitResume(co[2]) IN
       /\ fault' = IF a.kind = "assert" THEN AssertName(co[2].flavor)
                                        ELSE NoFault
       /\ co' = [co EXCEPT ![2] = a.r, ![1].got = Append(@, a.val),
                           ![1].st = "done", ![1].at = "final"]
       /\ log' = Append(log, Ev("await_resume", 2, 1, a.val))
       /\ th' = [th EXCEPT ![t].pc = "idle"]

\* CoroutineBase::resume of B in context 2: B runs to its next suspension
\* point, or through co_return to its final suspend point
R_resume ==
  /\ RaceStep(2, "resume")
  /\ LET i == co[2].body[co[2].pc] IN
       IF i.op = "susp"
         THEN /\ co' = [co EXCEPT ![2].pc = @ + 1]
              /\ UNCHANGED th
         ELSE /\ co' = [co EXCEPT ![2].st = "running", ![2].at = "final",
                                  ![2].pd = IF co[2].void
                                              THEN @ ELSE init_data(@, i.arg)]
              /\ th' = [th EXCEPT ![2].pc = "final_suspend"]
  /\ log' = Append(log, Ev("resume", 2, 0, 0))
  /\ UNCHANGED fault

\* final_suspend in context 2, the first statement of
\* suspend_with_continuation: _continuation is read
R_read_continuation ==
  /\ RaceStep(2, "final_suspend")
  /\ \E h \in RacyRead(suspend_with_continuation(co[2].cont).sus, Null) :
       th' = [th EXCEPT ![2].pc = "clear", ![2].sus = h]
  /\ UNCHANGED <<co, log, fault>>

\* the second statement of suspend_with_continuation: _continuation = nullptr
R_clear_continuation ==
  /\ RaceStep(2, "clear")
  /\ co' = [co EXCEPT ![2].cont = suspend_with_continuation(@).c]
  /\ th' = [th EXCEPT ![2].pc = "suspend"]
  /\ UNCHANGED <<log, fault>>

\* B is suspended at its final suspend point: done() is true from here
R_final_suspended ==
  /\ RaceStep(2, "suspend")
  /\ co' = [co EXCEPT ![2].st = "done"]
  /\ th' = [th EXCEPT ![2].pc = "final_await_suspend"]
  /\ UNCHANGED <<log, fault>>

\* SuspendWithContinuation::await_suspend in context 2: the continuation
\* that was read is resumed in this context, or resume() returns
R_final_await_suspend ==
  /\ RaceStep(2, "final_await_suspend")
  /\ LET h == sus_await_suspend(th[2].sus) IN
       IF h = NoopCo
         THEN /\ th' = [th EXCEPT ![2].pc = "idle"]
              /\ UNCHANGED <<co, log>>
         ELSE /\ th' = [th EXCEPT ![2].pc = "await_resume"]
              /\ co' = [co EXCEPT ![h].st = "running"]
              /\ log' = Append(log, Ev("wake", 2, h, 1))
  /\ UNCHANGED fault

RaceInit ==
  /\ co \in RacePrograms
  /\ th = [t \in Threads |->
             CASE t = 1 -> RaceCtx("await_ready")
               [] t = 2 -> RaceCtx("resume")
               [] OTHER -> RaceCtx("idle")]
  /\ log = <<>>
  /\ fault = NoFault
  /\ hres = [c \in Ids |-> <<>>]
  /\ hwait = {}
  /\ hd = [a \in HandleIds |-> NoHandle]
  /\ freed = [c \in Ids |-> 0]
  /\ move_result = TRUE
  /\ pd = PromiseData
  /\ link = Null
  /\ last = [op |-> "none", arg |-> Null, val |-> Void]
  /\ prev = [op |-> "none", arg |-> Null, val |-> Void]
  /\ ufault = NoFault

RaceNext ==
  \/ R_await_ready
  \/ R_await_suspend
  \/ \E t \in 1..2 : R_await_resume(t)
  \/ R_resume
  \/ R_read_continuation
  \/ R_clear_continuation
  \/ R_final_suspended
  \/ R_final_await_suspend

\* an awaiter and the context that completes the awaited ImmediateTask
SpecRace == RaceInit /\ [][RaceNext]_vars

\* both contexts have returned to their callers
RaceOver == th[1].pc = "idle" /\ th[2].pc = "idle"

\* C36: the cross-context completion race.  However B's completion in
\* context 2 interleaves with A's ready-check and suspend-handoff in context
\* 1, A goes past its await point exactly once: it is never resumed twice,
\* B's continuation is handed back at most once, and when both contexts
\* have returned A is not left suspended at the co_await.
C36_ResumedExactlyOnce ==
  /\ Cardinality(Events("await_resume", 2)) <= 1
  /\ Cardinality(Events("wake", 2)) <= 1
  /\ RaceOver =>
       /\ co[1].st = "done"
       /\ Cardinality(Events("await_resume", 2)) = 1


(***************************************************************************)
(* The slot over its whole lifetime: the calls of SpecPromise, ended by    *)
(* the destructor of the promise.                                          *)
(***************************************************************************)
\* PromiseData::~PromiseData
U_dtor ==
  /\ ufault = NoFault
  /\ pd' = free_data(pd)
  /\ URecord([op |-> "~PromiseData", arg |-> Null, val |-> Void])
  /\ UNCHANGED <<link, ufault>>
  /\ UNCHANGED <<rvars, hvars>>

SlotNext ==
  \/ last.op /= "~PromiseData" /\ UNext
  \/ last.op /= "~PromiseData" /\ U_dtor

SpecSlot == UInit /\ [][SlotNext]_vars

\* C37: every object constructed in the slot is destroyed exactly once.
\* No more destructors run than objects were constructed; while the slot
\* holds a value that value is the one object not yet destroyed; and once
\* the slot is empty, after data() && as well as after the destructor,
\* every object constructed in it has been destroyed.
C37_ValueDestroyedOnce ==
  /\ pd.dtor <= pd.ctor
  /\ has_value(pd) => pd.ctor = pd.dtor + 1
  /\ ~has_value(pd) => pd.ctor = pd.dtor


\* C38: has_value() and data() & leave the slot as it is.  A call of either
\* changes neither the stored object nor the flag nor what was constructed
\* and destroyed, has_value() answers by the flag and data() & returns the
\* stored value; whenever the slot changes, the call was init_data or
\* data() &&.
C38_ReadsLeaveSlotUnchanged ==
  [][/\ last'.op \in {"has_value", "read"} => pd' = pd
     /\ last'.op = "has_value" => last'.val = has_value(pd)
     /\ (last'.op = "read" /\ ufault' = NoFault) =>
          has_value(pd) /\ last'.val = pd.data
     /\ pd' /= pd => last'.op \in {"init_data", "take"}]_vars

\* a full slot was tested and then read, and is still full
C38_Witness ==
  /\ prev.op = "has_value" /\ prev.val = TRUE
  /\ last.op = "read" /\ last.val \in Values
  /\ ufault = NoFault
  /\ has_value(pd) /\ pd.data = last.val


(***************************************************************************)
(* A task that awaits a Lazy or a Generator whose body may throw.          *)
(***************************************************************************)
RethrowPrograms ==
  UNION {
    {[c \in Ids |-> IF c = 1 THEN NewCo(x[1], TRUE, AwaitBody(1, x[2], 0))
                             ELSE NewCo("Lazy", y, b)] :
       b \in TaskBodies("Lazy", y)} :
    x \in OuterFlavors \X (0..1), y \in BOOLEAN}
  \cup
  UNION {
    {[c \in Ids |-> IF c = 1 THEN NewCo(x[1], TRUE, AwaitBody(x[2], 0, 0))
                             ELSE NewCo("Generator", FALSE, b)] :
       b \in {ThrowingGenBody(y) : y \in YieldSeqs}} :
    x \in OuterFlavors \X (1..(MaxYields + 1))}

RethrowInit ==
  /\ co \in RethrowPrograms
  /\ log = <<>>
  /\ fault = NoFault
  /\ hres = [c \in Ids |-> <<>>]
  /\ hwait = {}
  /\ HInit
  /\ move_result = TRUE
  /\ pd = PromiseData
  /\ link = Null
  /\ last = [op |-> "none", arg |-> Null, val |-> Void]
  /\ prev = [op |-> "none", arg |-> Null, val |-> Void]
  /\ ufault = NoFault

\* a host that keeps to the await protocol, over these programs
SpecRethrow == RethrowInit /\ [][Next]_vars

\* the call that was running the body of coroutine 2 at log position i
RunningCall(i) ==
  LET k == CHOOSE j \in 1..(i - 1) :
             /\ log[j][1] \in {"create", "resume", "await_suspend"}
             /\ log[j][2] = 2
             /\ \A m \in (j + 1)..(i - 1) :
                  ~(log[m][1] \in {"create", "resume", "await_suspend"}
                      /\ log[m][2] = 2)
  IN log[k]

\* C39: an error out of a Lazy or Generator that await_suspend was running
\* in place.  The exception leaves the body of coroutine 2, which is done
\* and stores nothing; it is unhandled next in the awaiting coroutine 1,
\* still at its co_await, with no await_resume of 2 in between or after;
\* coroutine 1 is not left suspended at the co_await: its own policy, the
\* capture of a Task or ImmediateTask, stores the exception and completes
\* it.
C39_ErrorSurfacesInAwaiter ==
  \A i \in Events("unhandled", 2) :
    (i > 1 /\ RunningCall(i) = Ev("await_suspend", 2, 1, 1)) =>
      /\ co[2].flavor \in {"Lazy", "Generator"}
      /\ done(co[2]) /\ ~co[2].exc
      /\ i < Len(log) /\ log[i + 1] = Ev("unhandled", 1, 0, 0)
      /\ \A j \in Events("await_resume", 2) : j < i
      /\ co[1].body[co[1].pc].op = "await"
      /\ ~(co[1].st = "suspended" /\ co[1].at = "await")
      /\ IsAsyncThrow(co[1].flavor) /\ co[1].exc /\ done(co[1])

\* coroutine 1 read a value of the Generator 2 and awaited it again; the
\* body of 2 threw out of that await_suspend and 1 finished with the
\* exception
C39_Witness ==
  /\ co[2].flavor = "Generator"
  /\ co[1].got /= <<>>
  /\ \E i \in Events("unhandled", 2) :
       /\ RunningCall(i) = Ev("await_suspend", 2, 1, 1)
       /\ log[i + 1] = Ev("unhandled", 1, 0, 0)
  /\ done(co[1]) /\ co[1].exc

====
